---- MODULE Spec2Model ----
(***************************************************************************)
(* Interactive-Learning-Tool: the question domain model (core/question.py), *)
(* the persistence helpers (persistence/file_handler.py) and the Quiz Store *)
(* (core/quiz_manager.py).                                                  *)
(*                                                                          *)
(* A persisted record is a JSON object.  It is modelled as a function from  *)
(* the thirteen field names to JSON values, an absent key being the value   *)
(* Missing.  A JSON value carries its type, because the conversions of      *)
(* Question.from_dict (int, str, bool, list, lower) act differently on each *)
(* type and some of them raise.                                             *)
(***************************************************************************)
EXTENDS Integers, Sequences, FiniteSets, TLC

VARIABLES
    disk,       \* data/questions.json: the persisted sequence of records
    questions,  \* QuizManager._questions: the in-memory store
    pc,         \* "unloaded": no store built yet; "ready": QuizManager() returned;
                \* "raised": QuizManager() raised and the process ended
    last,       \* the last call made: its name and, when it returns one, its value
    session     \* the mode the user is in and how far its dialogue has come,
                \* with data/results.txt where a session writes it;
                \* [mode |-> "menu"] at the main menu

vars == <<disk, questions, pc, last, session>>

-----------------------------------------------------------------------------
(* Bounds of the model *)

MaxLoad == 2        \* records in the persisted collection at start
MaxStore == 3       \* questions held by the store
MaxBatch == 2       \* questions handed to one add_questions call
MaxResults == 1     \* results recorded in the store: correct plus incorrect answers
MaxLiteral == 12    \* largest magnitude of an integer written as a string
MaxIdRecords == 3   \* records handed to one get_next_id call
MaxCandidates == 2  \* questions handed to one selector call
MaxCorrect == 5     \* largest correct_count of a candidate
MaxAsk == 3         \* largest number of questions asked of random_unique
MaxAnswerLen == 3   \* characters of an answer the user types
MaxLog == 1         \* lines in the results log of sessions of both kinds
MaxTests == 2       \* lines in the results log of test sessions
MaxCount == 7       \* largest result counter handed to correct_percentage
MaxOptions == 5     \* options of a multiple-choice question answered at the prompt

-----------------------------------------------------------------------------
(* JSON values *)

Missing == [t |-> "missing"]
Null == [t |-> "null"]
JInt(n) == [t |-> "int", v |-> n]
JStr(s) == [t |-> "str", v |-> s]
JBool(b) == [t |-> "bool", v |-> b]
JList(items) == [t |-> "list", v |-> items]

Keys ==
    {"id", "topic", "type", "question", "source", "active", "times_shown",
     "correct_count", "incorrect_count", "options", "correct_answer",
     "explanation", "reference_answer"}

EmptyDict == [k \in Keys |-> Missing]

\* dictionary.get(key, default) that forgets the default
GetNoDefault(dictionary, key, default) ==
    IF dictionary[key] = Missing THEN Null ELSE dictionary[key]

\* dictionary.get(key, default)
Get(dictionary, key, default) ==
    IF dictionary[key] = Missing THEN default ELSE dictionary[key]

\* dictionary.get(key): None when the key is absent
GetOrNone(dictionary, key) == Get(dictionary, key, Null)

-----------------------------------------------------------------------------
(* Python's conversions, each by what it does on a JSON value *)

Digit(d) ==
    CASE d = 0 -> "0" [] d = 1 -> "1" [] d = 2 -> "2" [] d = 3 -> "3"
      [] d = 4 -> "4" [] d = 5 -> "5" [] d = 6 -> "6" [] d = 7 -> "7"
      [] d = 8 -> "8" [] d = 9 -> "9"

RECURSIVE DecStr(_)
\* str(n) of an integer: its decimal numeral
DecStr(n) ==
    IF n < 0 THEN "-" \o DecStr(-n)
    ELSE IF n < 10 THEN Digit(n)
    ELSE DecStr(n \div 10) \o Digit(n % 10)

\* The strings int() reads as the integer n: the numeral, with optional
\* surrounding whitespace, and with an optional plus sign.
IntLiterals(n) ==
    {DecStr(n), " " \o DecStr(n) \o " "}
        \cup (IF n >= 0 THEN {"+" \o DecStr(n)} ELSE {})

Raised(exc) == [ok |-> FALSE, exc |-> exc]
Value(v) == [ok |-> TRUE, v |-> v]

\* int(x): an int is kept, a bool is 0 or 1, a string is parsed and raises
\* ValueError when it is no numeral, None and a list raise TypeError.
PyInt(x) ==
    CASE x.t = "int" -> Value(x.v)
      [] x.t = "bool" -> Value(IF x.v THEN 1 ELSE 0)
      [] x.t = "str" ->
            IF \E n \in -MaxLiteral..MaxLiteral : x.v \in IntLiterals(n)
            THEN Value(CHOOSE n \in -MaxLiteral..MaxLiteral : x.v \in IntLiterals(n))
            ELSE Raised("ValueError")
      [] OTHER -> Raised("TypeError")

RECURSIVE ItemsRepr(_)
\* repr of the items of a list of strings, comma separated
ItemsRepr(items) ==
    IF items = <<>> THEN ""
    ELSE "'" \o Head(items).v \o "'"
         \o (IF Len(items) > 1 THEN ", " ELSE "") \o ItemsRepr(Tail(items))

\* str(x)
PyStr(x) ==
    CASE x.t = "str" -> x.v
      [] x.t = "int" -> DecStr(x.v)
      [] x.t = "bool" -> (IF x.v THEN "True" ELSE "False")
      [] x.t = "null" -> "None"
      [] x.t = "list" -> "[" \o ItemsRepr(x.v) \o "]"

\* bool(x), Python's truth value
PyBool(x) ==
    CASE x.t = "bool" -> x.v
      [] x.t = "int" -> x.v # 0
      [] x.t = "str" -> x.v # ""
      [] x.t = "list" -> x.v # <<>>
      [] x.t = "null" -> FALSE

\* x or default
Or(x, default) == IF PyBool(x) THEN x ELSE default

\* str.lower() on the type tags the model uses
Lower(s) ==
    CASE s = "Multiple-Choice" -> "multiple-choice"
      [] s = "MULTIPLE-CHOICE" -> "multiple-choice"
      [] s = "Freeform" -> "freeform"
      [] s = "MCQ" -> "mcq"
      [] s = "Python" -> "python"
      [] OTHER -> s

\* The characters of the strings the model hands to list()
Chars(s) ==
    CASE s = "" -> <<>>
      [] s = "ab" -> <<JStr("a"), JStr("b")>>

\* list(x): a list is copied, a string gives its characters, any other
\* value raises TypeError.
PyList(x) ==
    CASE x.t = "list" -> Value(x.v)
      [] x.t = "str" -> Value(Chars(x.v))
      [] OTHER -> Raised("TypeError")

-----------------------------------------------------------------------------
(* core/question.py *)

\* Question.as_dict that leaves the counters out
BaseFieldsNoCounters(q) ==
    [k \in Keys |->
        CASE k = "id" -> JInt(q.id)
          [] k = "topic" -> JStr(q.topic)
          [] k = "type" -> JStr(q.type)
          [] k = "question" -> JStr(q.question)
          [] k = "source" -> JStr(q.source)
          [] k = "active" -> JBool(q.active)
          [] OTHER -> Missing]

\* Question.as_dict
BaseFields(q) ==
    [k \in Keys |->
        CASE k = "id" -> JInt(q.id)
          [] k = "topic" -> JStr(q.topic)
          [] k = "type" -> JStr(q.type)
          [] k = "question" -> JStr(q.question)
          [] k = "source" -> JStr(q.source)
          [] k = "active" -> JBool(q.active)
          [] k = "times_shown" -> JInt(q.times_shown)
          [] k = "correct_count" -> JInt(q.correct_count)
          [] k = "incorrect_count" -> JInt(q.incorrect_count)
          [] OTHER -> Missing]

\* MCQQuestion.as_dict that writes an absent explanation as an empty string
MCQ_as_dict_EmptyExplanation(q) ==
    [BaseFields(q) EXCEPT
        !["options"] = JList(q.options),
        !["correct_answer"] = JStr(q.correct_answer),
        !["explanation"] = IF q.explanation # Null THEN q.explanation ELSE JStr("")]

\* MCQQuestion.as_dict: explanation is written only when it is not None
MCQ_as_dict(q) ==
    [BaseFields(q) EXCEPT
        !["options"] = JList(q.options),
        !["correct_answer"] = JStr(q.correct_answer),
        !["explanation"] = IF q.explanation # Null THEN q.explanation ELSE Missing]

\* FreeformQuestion.as_dict
Freeform_as_dict(q) ==
    [BaseFields(q) EXCEPT !["reference_answer"] = JStr(q.reference_answer)]

\* question.as_dict(), dispatched on the object's class
as_dict(q) ==
    IF q.variant = "MCQQuestion" THEN MCQ_as_dict(q) ELSE Freeform_as_dict(q)

\* The type tag with "mcq" read as multiple-choice
TypeTagWithAlias(dictionary) ==
    LET tag == Or(GetOrNone(dictionary, "type"), JStr(""))
    IN  IF tag.t # "str" THEN Raised("AttributeError")
        ELSE IF Lower(tag.v) = "mcq" THEN Value("multiple-choice")
        ELSE Value(Lower(tag.v))

\* qtype = (dictionary.get("type") or "").lower(): a true value that is no
\* string has no lower() and raises AttributeError
TypeTag(dictionary) ==
    LET tag == Or(GetOrNone(dictionary, "type"), JStr(""))
    IN  IF tag.t = "str" THEN Value(Lower(tag.v)) ELSE Raised("AttributeError")

\* Question.from_dict: Value(question), or Raised(exception) when one of its
\* conversions raises
from_dict(dictionary) ==
    LET qtype == TypeTag(dictionary)
        id == PyInt(Get(dictionary, "id", JInt(0)))
        times_shown == PyInt(Get(dictionary, "times_shown", JInt(0)))
        correct_count == PyInt(Get(dictionary, "correct_count", JInt(0)))
        incorrect_count == PyInt(Get(dictionary, "incorrect_count", JInt(0)))
        options == PyList(Or(Get(dictionary, "options", JList(<<>>)), JList(<<>>)))
        base == <<qtype, id, times_shown, correct_count, incorrect_count>>
        failed == {i \in 1..Len(base) : ~base[i].ok}
    IN  IF failed # {}
        THEN Raised(base[CHOOSE i \in failed : \A j \in failed : i <= j].exc)
        ELSE IF qtype.v = "multiple-choice"
        THEN IF ~options.ok THEN Raised(options.exc)
             ELSE Value(
                [variant |-> "MCQQuestion",
                 id |-> id.v,
                 topic |-> PyStr(Get(dictionary, "topic", JStr(""))),
                 type |-> qtype.v,
                 question |-> PyStr(Get(dictionary, "question", JStr(""))),
                 source |-> PyStr(Get(dictionary, "source", JStr("LLM"))),
                 active |-> PyBool(Get(dictionary, "active", JBool(TRUE))),
                 times_shown |-> times_shown.v,
                 correct_count |-> correct_count.v,
                 incorrect_count |-> incorrect_count.v,
                 options |-> options.v,
                 correct_answer |-> PyStr(Get(dictionary, "correct_answer", JStr(""))),
                 explanation |-> GetOrNone(dictionary, "explanation")])
        ELSE Value(
                [variant |-> "FreeformQuestion",
                 id |-> id.v,
                 topic |-> PyStr(Get(dictionary, "topic", JStr(""))),
                 type |-> qtype.v,
                 question |-> PyStr(Get(dictionary, "question", JStr(""))),
                 source |-> PyStr(Get(dictionary, "source", JStr("LLM"))),
                 active |-> PyBool(Get(dictionary, "active", JBool(TRUE))),
                 times_shown |-> times_shown.v,
                 correct_count |-> correct_count.v,
                 incorrect_count |-> incorrect_count.v,
                 reference_answer |-> PyStr(Get(dictionary, "reference_answer", JStr("")))])

-----------------------------------------------------------------------------
(* persistence/file_handler.py *)

RECURSIVE NextIdLoopFromLast(_, _)
\* The loop of get_next_id keeping the last id it reads, not the largest
NextIdLoopFromLast(records, max_id) ==
    IF records = <<>> THEN max_id
    ELSE LET qid == PyInt(Get(Head(records), "id", JInt(0)))
         IN  NextIdLoopFromLast(Tail(records), IF qid.ok THEN qid.v ELSE max_id)

RECURSIVE NextIdLoop(_, _)
\* The loop of get_next_id: max_id after the records left to visit.  A record
\* whose id makes int() raise is skipped by the except clause.
NextIdLoop(records, max_id) ==
    IF records = <<>> THEN max_id
    ELSE LET qid == PyInt(Get(Head(records), "id", JInt(0)))
         IN  NextIdLoop(Tail(records),
                        IF qid.ok /\ qid.v > max_id THEN qid.v ELSE max_id)

\* The next id taken from the number of records
NextIdByCount(records) == Len(records) + 1

get_next_id(records) == NextIdLoop(records, 0) + 1

\* save_questions then load_questions: json.dump followed by json.load gives
\* back the same list of records
save_questions(records) == records

-----------------------------------------------------------------------------
(* core/selector.py *)

Max(a, b) == IF a >= b THEN a ELSE b
Min(a, b) == IF a <= b THEN a ELSE b

\* The weight without its floor
WeightNoFloor(question) ==
    LET incorrect == Max(0, question.incorrect_count)
        correct == Max(0, question.correct_count)
    IN  20 + 20 * incorrect - 5 * correct

\* The weight weighted_choice gives a question (lines 27-31), in twentieths:
\* 1.0 is 20, 0.25 is 5 and the floor 0.1 is 2.  The weight is a multiple of
\* 0.25 before the floor, so the float comparison with 0.1 is exact.
Weight20(question) ==
    LET incorrect == Max(0, question.incorrect_count)
        correct == Max(0, question.correct_count)
        weighting_mechanism == 20 + 20 * incorrect - 5 * correct
    IN  IF weighting_mechanism < 2 THEN 2 ELSE weighting_mechanism

RECURSIVE Total(_)
Total(weights) ==
    IF weights = <<>> THEN 0 ELSE Head(weights) + Total(Tail(weights))

\* random.choices(population, weights, k=1)[0]: IndexError on an empty
\* population, ValueError when the weights do not add up to more than zero,
\* else one draw that gives any position whose weight is positive.  An
\* outcome is the result and the number of random draws made.
Choices(weights) ==
    IF weights = <<>> THEN {[res |-> Raised("IndexError"), draws |-> 0]}
    ELSE IF Total(weights) <= 0 THEN {[res |-> Raised("ValueError"), draws |-> 0]}
    ELSE {[res |-> Value(i), draws |-> 1] :
            i \in {j \in 1..Len(weights) : weights[j] > 0}}

\* weighted_choice without its check of the input
WeightedChoiceUnchecked(qs) ==
    Choices([i \in 1..Len(qs) |-> Weight20(qs[i])])

\* weighted_choice(questions): the outcomes the call can have, a result being
\* the position of the question returned
weighted_choice(qs) ==
    IF qs = <<>> THEN {[res |-> Raised("ValueError"), draws |-> 0]}
    ELSE Choices([i \in 1..Len(qs) |-> Weight20(qs[i])])

\* The sequences of k distinct members of S
RECURSIVE Samples(_, _)
Samples(S, k) ==
    IF k = 0 THEN {<<>>}
    ELSE UNION {{<<x>> \o rest : rest \in Samples(S \ {x}, k - 1)} : x \in S}

\* random_unique that draws with replacement
RandomUniqueRepeating(qs, number_of_questions) ==
    IF number_of_questions <= 0 THEN {<<>>}
    ELSE [1..Min(number_of_questions, Len(qs)) -> 1..Len(qs)]

\* random_unique(questions, number_of_questions): the results the call can
\* have, each the positions of the questions returned, in the order returned
\* (random.sample draws without replacement)
random_unique(qs, number_of_questions) ==
    IF number_of_questions <= 0 THEN {<<>>}
    ELSE Samples(1..Len(qs), Min(number_of_questions, Len(qs)))

-----------------------------------------------------------------------------
(* core/evaluator.py and the judgment it delegates to llm/llm_client.py.    *)
(* The texts the evaluator trims and folds to lower case are sequences of   *)
(* characters.                                                              *)

Whitespace == {" ", "\t", "\n"}

\* str.lower() of one character
LowerChar(c) ==
    CASE c = "A" -> "a" [] c = "B" -> "b" [] c = "C" -> "c" [] c = "E" -> "e"
      [] c = "O" -> "o" [] c = "R" -> "r" [] c = "T" -> "t" [] c = "Y" -> "y"
      [] c = "D" -> "d" [] c = "I" -> "i" [] c = "X" -> "x"
      [] OTHER -> c

\* str.lower()
LowerText(text) == [k \in 1..Len(text) |-> LowerChar(text[k])]

RECURSIVE LStrip(_)
LStrip(text) ==
    IF text # <<>> /\ Head(text) \in Whitespace THEN LStrip(Tail(text)) ELSE text

RECURSIVE RStrip(_)
RStrip(text) ==
    IF text # <<>> /\ text[Len(text)] \in Whitespace
    THEN RStrip(SubSeq(text, 1, Len(text) - 1))
    ELSE text

\* str.strip()
Strip(text) == RStrip(LStrip(text))

\* evaluate_mcq that compares the answers as typed
EvaluateMcqVerbatim(mcq_question, user_choice) ==
    <<user_choice = mcq_question.correct_answer,
      Or(mcq_question.explanation, JStr(<<>>)).v>>

\* evaluate_mcq(mcq_question, user_choice): (is_correct, explanation)
evaluate_mcq(mcq_question, user_choice) ==
    LET is_correct ==
            LowerText(Strip(user_choice)) =
                LowerText(Strip(mcq_question.correct_answer))
        explanation == Or(mcq_question.explanation, JStr(<<>>)).v
    IN  <<is_correct, explanation>>

JDict(fields) == [t |-> "dict", v |-> fields]

\* The text (x or "").strip() of judge_freeform and evaluate_freeform: a true
\* value that is no string has no strip() and raises AttributeError
StrippedOrEmpty(x) ==
    LET text == Or(x, JStr(<<>>))
    IN  IF text.t = "str" THEN Value(Strip(text.v)) ELSE Raised("AttributeError")

\* judge_freeform (llm_client.py:258-276) on the result of client.complete:
\* a result with an error key is handed on as it is, any other one is
\* reduced to its judgment and explanation, both stripped
judge_freeform(result) ==
    IF result.error # Missing THEN Value(result)
    ELSE LET judgment == StrippedOrEmpty(GetOrNone(result, "judgment"))
             explanation == StrippedOrEmpty(GetOrNone(result, "explanation"))
         IN  IF ~judgment.ok THEN judgment
             ELSE IF ~explanation.ok THEN explanation
             ELSE Value([error |-> Missing,
                         judgment |-> JStr(judgment.v),
                         explanation |-> JStr(explanation.v)])

NotAnswered == "The question was not answered"

\* evaluate_freeform from its call of judge_freeform on (lines 40-51),
\* completion being what client.complete returns to judge_freeform: the value
\* returned or the exception raised, and the calls of judge_freeform made
Judged(completion) ==
    LET result == judge_freeform(completion)
    IN  IF ~result.ok THEN [res |-> result, calls |-> 1]
        ELSE IF result.v.error # Missing
        THEN IF result.v.error.t # "dict"
             THEN [res |-> Raised("AttributeError"), calls |-> 1]
             ELSE [res |-> Value(<<FALSE,
                        "LLM error: " \o
                            PyStr(Get(result.v.error.v, "message", JStr("Unknown")))>>),
                   calls |-> 1]
        ELSE LET judgment == StrippedOrEmpty(GetOrNone(result.v, "judgment"))
                 explanation == Or(GetOrNone(result.v, "explanation"), JStr(<<>>))
             IN  IF ~judgment.ok THEN [res |-> judgment, calls |-> 1]
                 ELSE [res |-> Value(<<LowerText(judgment.v) =
                                           <<"c", "o", "r", "r", "e", "c", "t">>,
                                       explanation.v>>),
                       calls |-> 1]

\* evaluate_freeform that asks for a judgment of a blank answer too
EvaluateFreeformAlwaysAsks(user_answer, completion) == Judged(completion)

\* evaluate_freeform(freeform_question, user_answer)
evaluate_freeform(user_answer, completion) ==
    IF Strip(user_answer) = <<>>
    THEN [res |-> Value(<<FALSE, NotAnswered>>), calls |-> 0]
    ELSE Judged(completion)

-----------------------------------------------------------------------------
(* core/user_answer_processor.py and core/session_helpers.py.  typed is     *)
(* what the user types at the prompt, completion what client.complete       *)
(* returns if a judgment is asked for.                                      *)

\* get_user_answer(prompt): what the user typed, trimmed
get_user_answer(typed) == Strip(typed)

\* handle_exit that knows the lower-case word only
HandleExitExact(answer) == answer = <<"e", "x", "i", "t">>

\* handle_exit(answer)
handle_exit(answer) == LowerText(answer) = <<"e", "x", "i", "t">>

\* (None, None): the user typed exit
ExitRequested == [exited |-> TRUE, calls |-> 0]

\* process_mcq(question)
process_mcq(question, typed) ==
    LET answer == LowerText(get_user_answer(typed))
        answer_text ==
            IF answer \in {<<"a">>, <<"b">>, <<"c">>, <<"d">>}
            THEN LET index ==  \* ord(answer) - ord("a")
                         CASE answer = <<"a">> -> 0 [] answer = <<"b">> -> 1
                           [] answer = <<"c">> -> 2 [] answer = <<"d">> -> 3
                 IN  IF 0 <= index /\ index < Len(question.options)
                     THEN question.options[index + 1].v
                     ELSE answer
            ELSE answer
    IN  IF handle_exit(answer) THEN ExitRequested
        ELSE [exited |-> FALSE, res |-> Value(evaluate_mcq(question, answer_text)),
              calls |-> 0]

\* process_freeform(question)
process_freeform(typed, completion) ==
    LET answer == get_user_answer(typed)
    IN  IF handle_exit(answer) THEN ExitRequested
        ELSE LET out == evaluate_freeform(answer, completion)
             IN  [exited |-> FALSE, res |-> out.res, calls |-> out.calls]

\* present_and_get_result from the return of process_mcq or process_freeform
\* on (lines 33-41): (exit_requested, is_correct), or the exception raised,
\* and the judgments asked for
Returned(result) ==
    IF result.exited
    THEN [raised |-> FALSE, exit_requested |-> TRUE, is_correct |-> FALSE,
          calls |-> result.calls]
    ELSE IF ~result.res.ok
    THEN [raised |-> TRUE, exc |-> result.res.exc, calls |-> result.calls]
    ELSE [raised |-> FALSE, exit_requested |-> FALSE,
          is_correct |-> result.res.v[1], calls |-> result.calls]

\* present_and_get_result(question)
present_and_get_result(question, typed, completion) ==
    Returned(IF question.variant = "MCQQuestion"
             THEN process_mcq(question, typed)
             ELSE process_freeform(typed, completion))

-----------------------------------------------------------------------------
(* core/statistics.py.  A percentage is the exact fraction num/den in lowest *)
(* terms, den > 0; the rounding of the double that holds it is left out.     *)

RECURSIVE GCD(_, _)
GCD(a, b) == IF b = 0 THEN a ELSE GCD(b, a % b)

\* n / d for d > 0
Fraction(n, d) ==
    LET g == GCD(IF n < 0 THEN -n ELSE n, d)
    IN  [num |-> n \div g, den |-> d \div g]

\* correct_percentage over the times the question was shown
CorrectPercentageOfShown(question) ==
    LET total == question.times_shown
    IN  IF total <= 0 THEN Fraction(0, 1)
        ELSE LET ratio == Fraction(question.correct_count, total)
             IN  Fraction(ratio.num * 100, ratio.den)

\* correct_percentage(question)
correct_percentage(question) ==
    LET total == question.correct_count + question.incorrect_count
    IN  IF total <= 0 THEN Fraction(0, 1)
        ELSE LET ratio == Fraction(question.correct_count, total)
             IN  Fraction(ratio.num * 100, ratio.den)

-----------------------------------------------------------------------------
(* modes/generate_questions_mode.py *)

\* create_question_object: a freshly minted question, id 0, from a question
\* dict of the generation response, whose fields are strings or absent
create_question_object(question) ==
    LET qtype == Lower(Or(GetOrNone(question, "type"), JStr("")).v)
    IN  IF qtype = "multiple-choice"
        THEN [variant |-> "MCQQuestion",
              id |-> 0,
              topic |-> Lower(Get(question, "topic", JStr("")).v),
              type |-> qtype,
              question |-> Get(question, "question", JStr("")).v,
              source |-> "LLM",
              active |-> TRUE,
              times_shown |-> 0,
              correct_count |-> 0,
              incorrect_count |-> 0,
              options |-> PyList(Or(Get(question, "options", JList(<<>>)), JList(<<>>))).v,
              correct_answer |-> Get(question, "correct_answer", JStr("")).v,
              explanation |-> GetOrNone(question, "explanation")]
        ELSE [variant |-> "FreeformQuestion",
              id |-> 0,
              topic |-> Lower(Get(question, "topic", JStr("")).v),
              type |-> qtype,
              question |-> Get(question, "question", JStr("")).v,
              source |-> "LLM",
              active |-> TRUE,
              times_shown |-> 0,
              correct_count |-> 0,
              incorrect_count |-> 0,
              reference_answer |-> Get(question, "reference_answer", JStr("")).v]

RECURSIVE Split(_, _)
\* str.split(sep): the pieces between the separators, empty ones included
Split(text, sep) ==
    IF \A k \in 1..Len(text) : text[k] # sep THEN <<text>>
    ELSE LET k == CHOOSE i \in 1..Len(text) :
                    text[i] = sep /\ \A j \in 1..(i - 1) : text[j] # sep
         IN  <<SubSeq(text, 1, k - 1)>> \o Split(SubSeq(text, k + 1, Len(text)), sep)

\* _edit_question_text: the question after the prompt, with (changed, aborted)
edit_question_text(question, typed) ==
    LET new_qtext == get_user_answer(typed)
    IN  IF handle_exit(new_qtext)
        THEN [question |-> question, changed |-> FALSE, aborted |-> TRUE]
        ELSE IF new_qtext # <<>> /\ new_qtext # question.question
        THEN [question |-> [question EXCEPT !.question = new_qtext],
              changed |-> TRUE, aborted |-> FALSE]
        ELSE [question |-> question, changed |-> FALSE, aborted |-> FALSE]

\* _edit_mcq_fields: the options prompt, then the correct answer prompt
edit_mcq_fields(question, opts_typed, correct_typed) ==
    LET opts_input == get_user_answer(opts_typed)
        pieces == Split(opts_input, ";")
        stripped == [k \in 1..Len(pieces) |-> JStr(Strip(pieces[k]))]
        new_opts == SelectSeq(stripped, LAMBDA option : option.v # <<>>)
        opts_changed ==
            opts_input # <<>> /\ new_opts # <<>> /\ new_opts # question.options
        with_opts ==
            IF opts_changed THEN [question EXCEPT !.options = new_opts] ELSE question
        correct_answer_input == get_user_answer(correct_typed)
        answer_changed ==
            correct_answer_input # <<>>
                /\ correct_answer_input # with_opts.correct_answer
        with_answer ==
            IF answer_changed
            THEN [with_opts EXCEPT !.correct_answer = correct_answer_input]
            ELSE with_opts
        listed == {with_answer.options[k] : k \in 1..Len(with_answer.options)}
        with_added ==
            IF /\ correct_answer_input # <<>>
               /\ with_answer.correct_answer # <<>>
               /\ JStr(with_answer.correct_answer) \notin listed
            THEN [with_answer EXCEPT
                    !.options = Append(@, JStr(with_answer.correct_answer))]
            ELSE with_answer
    IN  IF handle_exit(opts_input)
        THEN [question |-> question, changed |-> FALSE, aborted |-> TRUE]
        ELSE IF handle_exit(correct_answer_input)
        THEN [question |-> with_opts, changed |-> FALSE, aborted |-> TRUE]
        ELSE [question |-> with_added, changed |-> opts_changed \/ answer_changed,
              aborted |-> FALSE]

\* _edit_freeform_fields: the reference answer prompt
edit_freeform_fields(question, typed) ==
    LET ref_input == get_user_answer(typed)
    IN  IF handle_exit(ref_input)
        THEN [question |-> question, changed |-> FALSE, aborted |-> TRUE]
        ELSE IF ref_input # <<>> /\ ref_input # question.reference_answer
        THEN [question |-> [question EXCEPT !.reference_answer = ref_input],
              changed |-> TRUE, aborted |-> FALSE]
        ELSE [question |-> question, changed |-> FALSE, aborted |-> FALSE]

\* _edit_question_in_place: the question object after the edit prompts, the
\* object being changed in place, and the value returned.  typed holds what
\* the user types at the text prompt and at the prompts of the fields.
edit_question_in_place(question, typed) ==
    LET text == edit_question_text(question, typed.text)
        fields ==
            IF text.question.variant = "MCQQuestion"
            THEN edit_mcq_fields(text.question, typed.options, typed.correct_answer)
            ELSE edit_freeform_fields(text.question, typed.reference_answer)
    IN  IF text.aborted THEN [question |-> text.question, ret |-> FALSE]
        ELSE IF fields.aborted THEN [question |-> fields.question, ret |-> FALSE]
        ELSE [question |-> fields.question, ret |-> text.changed \/ fields.changed]

-----------------------------------------------------------------------------
(* core/quiz_manager.py *)

\* [question.as_dict() for question in self._questions]
AsDicts(qs) == [i \in 1..Len(qs) |-> as_dict(qs[i])]

\* list_active that returns every question
ListEvery(qs) == qs

\* QuizManager.list_active
list_active(qs) == SelectSeq(qs, LAMBDA q : q.active)

\* _persist that writes the active questions only
PersistActive(qs) == save_questions(AsDicts(list_active(qs)))

\* QuizManager._persist: the whole store is serialized and written
persist(qs) == save_questions(AsDicts(qs))

\* find_by_id that compares nothing equal
FindNothing(qs, qid) == 0

\* QuizManager.find_by_id: the position of the first question with that id,
\* 0 standing for None
find_by_id(qs, qid) ==
    IF \E i \in 1..Len(qs) : qs[i].id = qid
    THEN CHOOSE i \in 1..Len(qs) :
            qs[i].id = qid /\ \A j \in 1..(i - 1) : qs[j].id # qid
    ELSE 0

\* add_questions that gives the whole batch the same id
AssignSameId(qs, new_questions, next_id) ==
    qs \o [i \in 1..Len(new_questions) |-> [new_questions[i] EXCEPT !.id = next_id]]

\* add_questions that replaces the store's questions by the batch
AssignAndReplace(qs, new_questions, next_id) ==
    [i \in 1..Len(new_questions) |->
        [new_questions[i] EXCEPT !.id = next_id + (i - 1)]]

\* The loop of add_questions: ids next_id, next_id + 1, ... in input order,
\* each question appended to the store
AssignAndAppend(qs, new_questions, next_id) ==
    qs \o [i \in 1..Len(new_questions) |->
            [new_questions[i] EXCEPT !.id = next_id + (i - 1)]]

\* record_result with both result counters raised
RecordedBoth(q, is_correct) ==
    [q EXCEPT !.times_shown = @ + 1, !.correct_count = @ + 1,
              !.incorrect_count = @ + 1]

\* record_result that forgets times_shown
RecordedNotShown(q, is_correct) ==
    [q EXCEPT
        !.correct_count = IF is_correct THEN @ + 1 ELSE @,
        !.incorrect_count = IF is_correct THEN @ ELSE @ + 1]

\* The statistics update of record_result
Recorded(q, is_correct) ==
    [q EXCEPT
        !.times_shown = @ + 1,
        !.correct_count = IF is_correct THEN @ + 1 ELSE @,
        !.incorrect_count = IF is_correct THEN @ ELSE @ + 1]

RECURSIVE Results(_)
\* The results the store holds, which the model bounds
Results(qs) ==
    IF qs = <<>> THEN 0
    ELSE Head(qs).correct_count + Head(qs).incorrect_count + Results(Tail(qs))

\* QuizManager.__init__: every record of the persisted collection goes
\* through from_dict; one record that raises ends the construction.  The
\* back-fill of active (lines 19-21) finds nothing to do, from_dict's bool()
\* having already made every flag a boolean.
Load ==
    LET loaded == [i \in 1..Len(disk) |-> from_dict(disk[i])]
    IN  /\ IF \A i \in 1..Len(disk) : loaded[i].ok
           THEN /\ questions' = [i \in 1..Len(disk) |-> loaded[i].v]
                /\ pc' = "ready"
           ELSE /\ questions' = <<>>
                /\ pc' = "raised"
        /\ last' = [op |-> "__init__"]
        /\ UNCHANGED disk

\* QuizManager.toggle_active
toggle_active(qid, active) ==
    /\ pc = "ready"
    /\ LET i == find_by_id(questions, qid)
       IN  IF i = 0
           THEN /\ last' = [op |-> "toggle_active", ret |-> FALSE]
                /\ UNCHANGED <<questions, disk>>
           ELSE /\ questions' = [questions EXCEPT ![i].active = active]
                /\ disk' = persist(questions')
                /\ last' = [op |-> "toggle_active", ret |-> TRUE]
    /\ UNCHANGED pc

\* QuizManager.add_questions
add_questions(new_questions) ==
    /\ pc = "ready"
    /\ Len(questions) + Len(new_questions) <= MaxStore
    /\ LET next_id == get_next_id(AsDicts(questions))
       IN  /\ questions' = AssignAndAppend(questions, new_questions, next_id)
           /\ disk' = persist(questions')
           /\ last' = [op |-> "add_questions"]
    /\ UNCHANGED pc

\* QuizManager.record_result, on the question object at position i
record_result(i, is_correct) ==
    /\ pc = "ready"
    /\ Results(questions) < MaxResults
    /\ questions' = [questions EXCEPT ![i] = Recorded(@, is_correct)]
    /\ disk' = persist(questions')
    /\ last' = [op |-> "record_result"]
    /\ UNCHANGED pc

-----------------------------------------------------------------------------
(* The persisted collections and generated questions the model starts from *)

Dict(fields) ==
    [k \in Keys |-> IF k \in DOMAIN fields THEN fields[k] ELSE Missing]

\* A legacy multiple-choice record: no active flag, no counters, no explanation
LegacyMCQ ==
    Dict([id |-> JInt(3), topic |-> JStr("python"), type |-> JStr("multiple-choice"),
          question |-> JStr("q1"), options |-> JList(<<JStr("x"), JStr("y")>>),
          correct_answer |-> JStr("x")])

\* A record written by hand: a negative id, disabled, and counters that do
\* not add up
HandEdited ==
    Dict([id |-> JInt(-2), topic |-> JStr("python"), type |-> JStr("freeform"),
          question |-> JStr("q2"), source |-> JStr("manual"), active |-> JBool(FALSE),
          times_shown |-> JInt(1), correct_count |-> JInt(0),
          incorrect_count |-> JInt(0), reference_answer |-> JStr("r")])

StoredRecords == {LegacyMCQ, HandEdited}

RECURSIVE SeqsUpTo(_, _)
\* The sequences over S of length at most n
SeqsUpTo(S, n) ==
    IF n = 0 THEN {<<>>}
    ELSE LET shorter == SeqsUpTo(S, n - 1)
         IN  shorter \cup {Append(s, x) : s \in shorter, x \in S}

\* Question dicts of a generation response
GeneratedMCQ ==
    Dict([type |-> JStr("Multiple-Choice"), topic |-> JStr("Python"),
          question |-> JStr("g1"), options |-> JList(<<JStr("x"), JStr("y")>>),
          correct_answer |-> JStr("x")])

GeneratedFreeform ==
    Dict([type |-> JStr("freeform"), topic |-> JStr("Python"),
          question |-> JStr("g2"), reference_answer |-> JStr("r")])

Minted == {create_question_object(d) : d \in {GeneratedMCQ, GeneratedFreeform}}

Batches == SeqsUpTo(Minted, MaxBatch) \ {<<>>}

\* The qids a caller hands to toggle_active: every id in the store and one
\* that no question has
ToggleIds ==
    LET ids == {questions[i].id : i \in 1..Len(questions)}
    IN  ids \cup {CHOOSE n \in 1..(Len(questions) + 1) : n \notin ids}

-----------------------------------------------------------------------------
(* The store across the program's modes *)

\* main.py: the main menu, no mode entered
Idle == [mode |-> "menu"]

Init ==
    /\ disk \in SeqsUpTo(StoredRecords, MaxLoad)
    /\ questions = <<>>
    /\ pc = "unloaded"
    /\ last = [op |-> "none"]
    /\ session = Idle

Next ==
    \/ Load /\ UNCHANGED session
    \/ \E qid \in ToggleIds, active \in BOOLEAN :
            toggle_active(qid, active) /\ UNCHANGED session
    \/ \E new_questions \in Batches :
            add_questions(new_questions) /\ UNCHANGED session
    \/ \E i \in 1..Len(questions), is_correct \in BOOLEAN :
            record_result(i, is_correct) /\ UNCHANGED session

Spec == Init /\ [][Next]_vars

\* The store as the generation and management modes use it: questions are
\* added and flags are set, no result is recorded
NextManage ==
    \/ Load /\ UNCHANGED session
    \/ \E qid \in ToggleIds, active \in BOOLEAN :
            toggle_active(qid, active) /\ UNCHANGED session
    \/ \E new_questions \in Batches :
            add_questions(new_questions) /\ UNCHANGED session

SpecManage == Init /\ [][NextManage]_vars

-----------------------------------------------------------------------------
(* Statistics: record_result *)

Balanced(q) == q.times_shown = q.correct_count + q.incorrect_count

\* C1: every record_result(question, is_correct) step raises the question's
\* times_shown by exactly 1 and exactly one result counter by exactly 1,
\* correct_count when is_correct and incorrect_count otherwise; the other
\* result counter keeps its value.
C1_RecordResultCounts ==
    [][\A i \in 1..Len(questions), is_correct \in BOOLEAN :
        (last'.op = "record_result" /\ record_result(i, is_correct)) =>
            /\ questions'[i].times_shown = questions[i].times_shown + 1
            /\ questions'[i].correct_count =
                 questions[i].correct_count + (IF is_correct THEN 1 ELSE 0)
            /\ questions'[i].incorrect_count =
                 questions[i].incorrect_count + (IF is_correct THEN 0 ELSE 1)]_vars

\* A result has just been recorded for a question
C1_Witness ==
    /\ last.op = "record_result"
    /\ \E i \in 1..Len(questions) :
        questions[i].correct_count + questions[i].incorrect_count = 1

\* C2: in every step taken by a built store, a question whose counters add up
\* (times_shown = correct_count + incorrect_count) still has counters that
\* add up afterwards, and every question the step inserts has counters that
\* add up.
C2_BalancePreserved ==
    [][pc = "ready" =>
        \A i \in 1..Len(questions') :
            (i <= Len(questions) => Balanced(questions[i]))
                => Balanced(questions'[i])]_vars

\* A balanced question has had a result recorded, beside one whose loaded
\* counters never added up
C2_Witness ==
    /\ last.op = "record_result"
    /\ \E i, j \in 1..Len(questions) :
        /\ Balanced(questions[i]) /\ questions[i].times_shown = 1
        /\ ~Balanced(questions[j])

-----------------------------------------------------------------------------
(* Identifiers: add_questions and get_next_id *)

DistinctIds(qs) ==
    \A i, j \in 1..Len(qs) : i # j => qs[i].id # qs[j].id

\* The largest id of a store, 0 for an empty one
LargestId(qs) ==
    IF qs = <<>> THEN 0
    ELSE CHOOSE m \in {qs[i].id : i \in 1..Len(qs)} :
            \A i \in 1..Len(qs) : qs[i].id <= m

\* C3: a step of a built store whose ids are pairwise distinct leaves them
\* pairwise distinct, and every question a step inserts has an id >= 1.
C3_IdsStayDistinct ==
    [][pc = "ready" =>
        /\ DistinctIds(questions) => DistinctIds(questions')
        /\ \A i \in (Len(questions) + 1)..Len(questions') : questions'[i].id >= 1]_vars

\* Questions were added to a loaded store that holds a negative id, and all
\* ids are distinct
C3_Witness ==
    /\ last.op = "add_questions"
    /\ Len(questions) = MaxStore
    /\ questions[1].id < 0
    /\ DistinctIds(questions)

\* The questions add_questions(new_questions) must leave in the store when the
\* batch is numbered from m + 1
Numbered(new_questions, m) ==
    questions \o [j \in 1..Len(new_questions) |->
                    [new_questions[j] EXCEPT !.id = m + j]]

\* C4 as claimed: add_questions numbers a batch of k minted questions
\* m+1, ..., m+k in input order, m being the largest id in the store (0 for an
\* empty store), and appends them in that order.
C4_AsClaimed ==
    [][\A new_questions \in Batches :
        (last'.op = "add_questions" /\ add_questions(new_questions)) =>
            questions' = Numbered(new_questions, LargestId(questions))]_vars

\* C4 amended: m is the largest id in the store when that id is positive, and
\* 0 when the store is empty or holds no positive id.
C4_ConsecutiveIds ==
    [][\A new_questions \in Batches :
        (last'.op = "add_questions" /\ add_questions(new_questions)) =>
            LET largest == LargestId(questions)
            IN  questions' =
                    Numbered(new_questions, IF largest > 0 THEN largest ELSE 0)]_vars

\* A batch of two was added to a store whose largest id is 3: it got 4 and 5
C4_Witness ==
    /\ last.op = "add_questions"
    /\ Len(questions) = 3
    /\ questions[1].id = 3 /\ questions[2].id = 4 /\ questions[3].id = 5
    /\ questions[2].variant # questions[3].variant

-----------------------------------------------------------------------------
(* toggle_active *)

\* C10: toggle_active(qid, active) on a store that holds a question with that
\* id sets the active flag of a question with that id to the given value,
\* leaves the persisted collection equal to the serialization of the whole
\* store and returns true; on a store that holds none it returns false and
\* changes neither the store nor the persisted collection.
C10_ToggleActive ==
    [][\A qid \in ToggleIds, active \in BOOLEAN :
        (last'.op = "toggle_active" /\ toggle_active(qid, active)) =>
            IF \E i \in 1..Len(questions) : questions[i].id = qid
            THEN /\ \E i \in 1..Len(questions) :
                        /\ questions[i].id = qid
                        /\ questions'[i].active = active
                        /\ questions'[i].id = qid
                 /\ Len(disk') = Len(questions')
                 /\ \A i \in 1..Len(questions') : disk'[i] = as_dict(questions'[i])
                 /\ last'.ret = TRUE
            ELSE /\ last'.ret = FALSE
                 /\ questions' = questions
                 /\ disk' = disk]_vars

\* A disabled question was found and enabled, and the file holds the new flag
C10_Witness ==
    /\ last = [op |-> "toggle_active", ret |-> TRUE]
    /\ \E i \in 1..Len(questions) :
        /\ questions[i].id = -2
        /\ questions[i].active
        /\ disk[i]["active"] = JBool(TRUE)

-----------------------------------------------------------------------------
(* What the store operations leave alone *)

\* r is q in everything but the active flag and the three counters
SameIdentity(q, r) ==
    r = [q EXCEPT !.active = r.active, !.times_shown = r.times_shown,
                  !.correct_count = r.correct_count,
                  !.incorrect_count = r.incorrect_count]

NoCounterLower(q, r) ==
    /\ r.times_shown >= q.times_shown
    /\ r.correct_count >= q.correct_count
    /\ r.incorrect_count >= q.incorrect_count

\* C11: a toggle_active, add_questions or record_result step removes no
\* question, keeps every question at its position with its id, topic, type,
\* text, answers and source, and lowers no counter; toggle_active changes
\* nothing but the active flag of one question, the first one that has its
\* id; record_result on a question changes nothing but the three counters of
\* that question; add_questions keeps every question of the store as it is.
C11_Frame ==
    [][/\ last'.op \in {"toggle_active", "add_questions", "record_result"} =>
            /\ Len(questions') >= Len(questions)
            /\ \A i \in 1..Len(questions) :
                    /\ SameIdentity(questions[i], questions'[i])
                    /\ NoCounterLower(questions[i], questions'[i])
       /\ last'.op = "toggle_active" =>
            /\ Len(questions') = Len(questions)
            /\ \A i \in 1..Len(questions) :
                    \/ questions'[i] = questions[i]
                    \/ /\ questions'[i] = [questions[i] EXCEPT !.active = ~@]
                       /\ \A j \in 1..Len(questions) :
                            /\ j < i => questions[j].id # questions[i].id
                            /\ j # i => questions'[j] = questions[j]
       /\ \A i \in 1..Len(questions), is_correct \in BOOLEAN :
            (last'.op = "record_result" /\ record_result(i, is_correct)) =>
                /\ Len(questions') = Len(questions)
                /\ questions'[i].active = questions[i].active
                /\ \A j \in 1..Len(questions) : j # i => questions'[j] = questions[j]
       /\ last'.op = "add_questions" =>
            SubSeq(questions', 1, Len(questions)) = questions]_vars

\* A result was recorded in a store of three questions, one of them added
\* and later disabled
C11_Witness ==
    /\ last.op = "record_result"
    /\ Len(questions) = 3
    /\ \E i \in 1..3 : questions[i].id = 4 /\ ~questions[i].active
    /\ \E i \in 1..3 : questions[i].times_shown = 1 /\ questions[i].id = 3

-----------------------------------------------------------------------------
(* Persistence: the file after a mutating operation *)

\* C12: after add_questions, after record_result and after a toggle_active
\* that found its question, the persisted collection holds exactly one record
\* per question of the store, in store order, each the serialization of its
\* question.
C12_FullSnapshot ==
    (\/ last.op \in {"add_questions", "record_result"}
     \/ last = [op |-> "toggle_active", ret |-> TRUE]) =>
        /\ Len(disk) = Len(questions)
        /\ \A i \in 1..Len(questions) : disk[i] = as_dict(questions[i])

\* A result was recorded in a store of three questions: the file holds the
\* new counter, the flag of a disabled question and the fields a legacy
\* record lacked
C12_Witness ==
    /\ last.op = "record_result"
    /\ Len(disk) = 3
    /\ \E i \in 1..3 : disk[i]["times_shown"] = JInt(1) /\ disk[i]["id"] = JInt(4)
    /\ \E i \in 1..3 : disk[i]["active"] = JBool(FALSE) /\ disk[i]["id"] = JInt(5)
    /\ disk[1]["id"] = JInt(3) /\ disk[1]["source"] = JStr("LLM")

-----------------------------------------------------------------------------
(* Serialization: records of any shape through from_dict and as_dict *)

CompleteMCQ ==
    Dict([id |-> JInt(4), topic |-> JStr("python"), type |-> JStr("multiple-choice"),
          question |-> JStr("q"), source |-> JStr("manual"), active |-> JBool(FALSE),
          times_shown |-> JInt(3), correct_count |-> JInt(2),
          incorrect_count |-> JInt(1), options |-> JList(<<JStr("x"), JStr("y")>>),
          correct_answer |-> JStr("x"), explanation |-> JStr("because")])

CompleteFreeform ==
    Dict([id |-> JInt(4), topic |-> JStr("python"), type |-> JStr("freeform"),
          question |-> JStr("q"), source |-> JStr("manual"), active |-> JBool(FALSE),
          times_shown |-> JInt(3), correct_count |-> JInt(2),
          incorrect_count |-> JInt(1), reference_answer |-> JStr("r")])

TypeTags ==
    {"multiple-choice", "Multiple-Choice", "MULTIPLE-CHOICE", "freeform",
     "Freeform", "mcq", "MCQ", ""}

\* The values a hand-edited or legacy file may hold under a key
FieldValues(k) ==
    CASE k = "id" ->
            {JInt(-1), JInt(0), JInt(7), JStr("5"), JStr(" 7 "), JStr("+7"),
             JStr("oops"), JStr(""), Null, JBool(TRUE)}
      [] k = "type" ->
            {JStr(tag) : tag \in TypeTags} \cup {Null, JInt(0), JInt(5), JBool(FALSE)}
      [] k = "active" ->
            {JBool(TRUE), JBool(FALSE), Null, JInt(0), JInt(1), JStr("false"), JStr("")}
      [] k \in {"times_shown", "correct_count", "incorrect_count"} ->
            {JInt(-1), JInt(2), JStr("2"), JStr("x"), Null}
      [] k = "options" ->
            {JList(<<>>), JList(<<JStr("x"), JStr("y")>>), Null, JStr("ab"),
             JStr(""), JInt(5), JInt(0)}
      [] k = "explanation" -> {JStr(""), JStr("because"), Null, JInt(3)}
      [] OTHER -> {JStr(""), JStr("Python"), JInt(3), Null, JBool(FALSE)}

\* The empty record, and the two complete records with one key removed or
\* given another value
CodecRecords ==
    {EmptyDict} \cup
    UNION {{[base EXCEPT ![k] = v] :
                base \in {CompleteMCQ, CompleteFreeform},
                v \in FieldValues(k) \cup {Missing}} : k \in Keys} \cup
    {[base EXCEPT !["type"] = Missing, ![k] = Missing] :
        base \in {CompleteMCQ, CompleteFreeform}, k \in Keys}

\* What a generation response may hold under a key of a question dict: strings
\* where the Question fields are strings, and any of the optional shapes
GeneratedValues(k) ==
    CASE k = "type" -> {JStr(tag) : tag \in TypeTags} \cup {Null}
      [] k = "options" -> {JList(<<>>), JList(<<JStr("x"), JStr("y")>>), Null}
      [] k = "explanation" -> {JStr(""), JStr("because"), Null}
      [] OTHER -> {JStr(""), JStr("Python")}

GeneratedKeys ==
    {"type", "topic", "question", "options", "correct_answer", "explanation",
     "reference_answer"}

GeneratedDicts ==
    UNION {{[base EXCEPT ![k] = v] :
                base \in {GeneratedMCQ, GeneratedFreeform},
                v \in GeneratedValues(k) \cup {Missing}} : k \in GeneratedKeys}

InitCodec ==
    /\ disk \in {<<>>} \cup {<<record>> : record \in CodecRecords}
    /\ questions = <<>>
    /\ pc = "unloaded"
    /\ last = [op |-> "none"]
    /\ session = Idle

\* A generated question is accepted into an empty store
AcceptGenerated ==
    \E d \in GeneratedDicts :
        /\ questions = <<>>
        /\ add_questions(<<create_question_object(d)>>)
        /\ UNCHANGED session

NextCodec ==
    \/ Load /\ UNCHANGED session
    \/ AcceptGenerated

SpecCodec == InitCodec /\ [][NextCodec]_vars

\* C6 as claimed: building the store from the persisted collection never
\* raises, whatever the records hold: every record is rebuilt as a question.
C6_LoadNeverRaises ==
    pc # "raised"

C8_AsClaimed ==
    pc = "ready" =>
        \A i \in 1..Len(questions) :
            questions[i].variant = "MCQQuestion"
                <=> disk[i]["type"] = JStr("multiple-choice")

\* C8 amended: a question built from a record is an MCQQuestion exactly when
\* the record's type tag is multiple-choice in any letter case, and a
\* FreeformQuestion for every other tag, a missing, null or misspelled one
\* included.
C8_Dispatch ==
    pc = "ready" =>
        \A i \in 1..Len(questions) :
            /\ questions[i].variant = "MCQQuestion"
                <=> disk[i]["type"] \in
                        {JStr("multiple-choice"), JStr("Multiple-Choice"),
                         JStr("MULTIPLE-CHOICE")}
            /\ questions[i].variant \in {"MCQQuestion", "FreeformQuestion"}

\* A record tagged "Multiple-Choice" was built as an MCQQuestion
C8_Witness ==
    /\ pc = "ready"
    /\ Len(questions) = 1
    /\ disk[1]["type"] = JStr("Multiple-Choice")
    /\ questions[1].variant = "MCQQuestion"

\* C9: a question built from a record that lacks a field has that field's
\* default: active true, source "LLM", each counter 0, each text field the
\* empty string, options the empty list; and every question of a built store
\* has a boolean active flag.
C9_Defaults ==
    pc = "ready" =>
        \A i \in 1..Len(questions) :
            LET q == questions[i]
                lacks(k) == disk[i][k] = Missing
            IN  /\ q.active \in BOOLEAN
                /\ lacks("active") => q.active = TRUE
                /\ lacks("source") => q.source = "LLM"
                /\ lacks("times_shown") => q.times_shown = 0
                /\ lacks("correct_count") => q.correct_count = 0
                /\ lacks("incorrect_count") => q.incorrect_count = 0
                /\ lacks("topic") => q.topic = ""
                /\ lacks("question") => q.question = ""
                /\ lacks("type") => q.type = ""
                /\ (q.variant = "MCQQuestion" /\ lacks("options")) => q.options = <<>>
                /\ (q.variant = "MCQQuestion" /\ lacks("correct_answer"))
                        => q.correct_answer = ""
                /\ (q.variant = "FreeformQuestion" /\ lacks("reference_answer"))
                        => q.reference_answer = ""

\* The record without any field was built as a question
C9_Witness ==
    /\ pc = "ready"
    /\ disk = <<EmptyDict>>
    /\ Len(questions) = 1
    /\ questions[1].active

-----------------------------------------------------------------------------
(* The selector on collections of any counters *)

\* Candidate questions: a fresh one, ones answered wrongly, ones on a correct
\* streak long enough to reach the floor, and hand-edited negative counters
Candidates ==
    {[create_question_object(GeneratedFreeform) EXCEPT
        !.id = 1, !.correct_count = c, !.incorrect_count = i,
        !.times_shown = Max(0, c) + Max(0, i)] :
            c \in -1..MaxCorrect, i \in {-1, 0, 1}}

InitSelect ==
    /\ disk = <<>>
    /\ questions \in SeqsUpTo(Candidates, MaxCandidates)
    /\ pc = "ready"
    /\ last = [op |-> "none"]
    /\ session = Idle

\* weighted_choice(questions) is called and returns or raises
CallWeightedChoice ==
    \E out \in weighted_choice(questions) :
        /\ last' = [op |-> "weighted_choice", ret |-> out.res, draws |-> out.draws]
        /\ UNCHANGED <<disk, questions, pc, session>>

\* random_unique(questions, n) is called and returns
CallRandomUnique ==
    \E n \in -1..MaxAsk : \E picked \in random_unique(questions, n) :
        /\ last' = [op |-> "random_unique", n |-> n, ret |-> picked]
        /\ UNCHANGED <<disk, questions, pc, session>>

NextSelect ==
    \/ CallWeightedChoice
    \/ CallRandomUnique

SpecSelect == InitSelect /\ [][NextSelect]_vars

\* C13 as claimed: weighted_choice on an empty collection reports the error
\* as a value it returns; it does not raise.
C13_AsClaimed ==
    (last.op = "weighted_choice" /\ questions = <<>>) => last.ret.ok

\* C13 amended: weighted_choice on an empty collection raises ValueError to
\* its caller, before any random draw and without changing a question.
C13_EmptyRaises ==
    [][(last'.op = "weighted_choice" /\ questions = <<>>) =>
        /\ last'.ret = Raised("ValueError")
        /\ last'.draws = 0
        /\ UNCHANGED <<disk, questions>>]_vars

\* weighted_choice was called on the empty collection
C13_Witness ==
    /\ last.op = "weighted_choice"
    /\ questions = <<>>
    /\ ~last.ret.ok

\* C14: the weight of every candidate is max(0.1, 1 + incorrect_count -
\* 0.25 * correct_count), negative counters counting as 0, here in twentieths,
\* and so is at least 0.1; weighted_choice on a non-empty collection can
\* return every one of its members and returns nothing else.
C14_WeightFloor ==
    /\ \A i \in 1..Len(questions) :
            LET incorrect == IF questions[i].incorrect_count < 0 THEN 0
                             ELSE questions[i].incorrect_count
                correct == IF questions[i].correct_count < 0 THEN 0
                           ELSE questions[i].correct_count
            IN  /\ Weight20(questions[i]) =
                        Max(2, 20 + 20 * incorrect - 5 * correct)
                /\ Weight20(questions[i]) >= 2
    /\ questions # <<>> =>
            {out.res : out \in weighted_choice(questions)} =
                {Value(i) : i \in 1..Len(questions)}
    /\ (last.op = "weighted_choice" /\ questions # <<>>) =>
            /\ last.ret.ok
            /\ last.ret.v \in 1..Len(questions)

\* weighted_choice returned a question on a correct streak that put its
\* weight at the floor, from a collection that holds one answered wrongly
C14_Witness ==
    /\ last.op = "weighted_choice"
    /\ Len(questions) = 2
    /\ last.ret = Value(2)
    /\ questions[2].correct_count = MaxCorrect /\ questions[2].incorrect_count = 0
    /\ questions[1].incorrect_count = 1

\* C15: random_unique(qs, n) returns min(n, len(qs)) questions when n > 0,
\* no two of them from the same position of qs; none when n <= 0; and every
\* position of qs once when n >= len(qs).
C15_RandomUnique ==
    last.op = "random_unique" =>
        LET picked == last.ret
            n == last.n
        IN  /\ \A k \in 1..Len(picked) : picked[k] \in 1..Len(questions)
            /\ \A k, l \in 1..Len(picked) : k # l => picked[k] # picked[l]
            /\ n <= 0 => picked = <<>>
            /\ n > 0 => Len(picked) = Min(n, Len(questions))
            /\ n >= Len(questions) =>
                    {picked[k] : k \in 1..Len(picked)} = 1..Len(questions)

\* random_unique was asked for more than the two questions there are and
\* returned both, the second one first
C15_Witness ==
    /\ last.op = "random_unique"
    /\ Len(questions) = 2
    /\ last.n = 3
    /\ last.ret = <<2, 1>>

-----------------------------------------------------------------------------
(* The evaluator on answers and judgments of any shape *)

Alphabet == {"a", "A", "b", " "}

\* What the user may type
Answers == SeqsUpTo(Alphabet, MaxAnswerLen)

\* Multiple-choice questions whose correct answer is in either case, padded,
\* in two words or empty, with and without explanation; and a freeform one
EvalQuestions ==
    {[create_question_object(GeneratedMCQ) EXCEPT
        !.id = 1, !.correct_answer = answer, !.explanation = explanation] :
            answer \in {<<"a", "b">>, <<" ", "A", " ">>, <<"a", " ", "b">>, <<>>},
            explanation \in {Null, JStr(<<>>), JStr(<<"b">>)}}
    \cup {[create_question_object(GeneratedFreeform) EXCEPT !.id = 1]}

Text(chars) == JStr(chars)

\* What client.complete may return: the error mappings of the client, with
\* and without message, and whatever JSON object the model answered with
Completions ==
    {[error |-> e, judgment |-> Missing, explanation |-> Missing] :
        e \in {JDict([type |-> JStr("RateLimitError"), message |-> JStr("boom")]),
               JDict([type |-> JStr("X"), message |-> Missing]),
               JStr("boom"), Null}}
    \cup {[error |-> Missing, judgment |-> j, explanation |-> x] :
            j \in {Text(<<"C", "o", "r", "r", "e", "c", "t">>),
                   Text(<<"c", "o", "r", "r", "e", "c", "t">>),
                   Text(<<" ", "C", "O", "R", "R", "E", "C", "T", " ">>),
                   Text(<<"I", "n", "c", "o", "r", "r", "e", "c", "t">>),
                   Text(<<>>), Null, Missing, JBool(TRUE)},
            x \in {Text(<<"b">>), Text(<<>>), Null, Missing}}

InitEvaluate ==
    /\ disk = <<>>
    /\ questions \in {<<q>> : q \in EvalQuestions}
    /\ pc = "ready"
    /\ last = [op |-> "none"]
    /\ session = Idle

\* evaluate_mcq(question, user_choice) is called once and returns
CallEvaluateMcq ==
    \E user_choice \in Answers :
        /\ pc = "ready"
        /\ questions[1].variant = "MCQQuestion"
        /\ last' = [op |-> "evaluate_mcq", user_choice |-> user_choice,
                    ret |-> evaluate_mcq(questions[1], user_choice)]
        /\ pc' = "returned"
        /\ UNCHANGED <<disk, questions, session>>

\* evaluate_freeform(question, user_answer) is called once and returns or
\* raises
CallEvaluateFreeform ==
    \E user_answer \in Answers, completion \in Completions :
        /\ pc = "ready"
        /\ questions[1].variant = "FreeformQuestion"
        /\ LET out == evaluate_freeform(user_answer, completion)
           IN  /\ last' = [op |-> "evaluate_freeform", user_answer |-> user_answer,
                           completion |-> IF out.calls = 0 THEN Missing ELSE completion,
                           ret |-> out.res, calls |-> out.calls]
               /\ pc' = IF out.res.ok THEN "returned" ELSE "raised"
        /\ UNCHANGED <<disk, questions, session>>

NextEvaluate ==
    \/ CallEvaluateMcq
    \/ CallEvaluateFreeform

SpecEvaluate == InitEvaluate /\ [][NextEvaluate]_vars

CasePairs ==
    {{"a", "A"}, {"b", "B"}, {"c", "C"}, {"e", "E"}, {"o", "O"}, {"r", "R"},
     {"t", "T"}}

SameIgnoringCase(x, y) ==
    /\ Len(x) = Len(y)
    /\ \A k \in 1..Len(x) : x[k] = y[k] \/ {x[k], y[k]} \in CasePairs

\* trimmed is text without its surrounding whitespace
IsTrimOf(trimmed, text) ==
    \E i \in 1..(Len(text) + 1), j \in 0..Len(text) :
        /\ trimmed = SubSeq(text, i, j)
        /\ \A k \in 1..(i - 1) : text[k] \in Whitespace
        /\ \A k \in (j + 1)..Len(text) : text[k] \in Whitespace
        /\ trimmed # <<>> =>
                trimmed[1] \notin Whitespace /\ trimmed[Len(trimmed)] \notin Whitespace

Pieces(text) ==
    {SubSeq(text, i, j) : i \in 1..(Len(text) + 1), j \in 0..Len(text)}

\* C16: evaluate_mcq(question, user_choice) returns is_correct true exactly
\* when user_choice and the question's correct_answer, each without its
\* surrounding whitespace, are equal up to the case of their letters; it
\* returns the question's explanation, the empty string when there is none,
\* whatever is_correct is; and the step changes neither the question nor the
\* file.
C16_EvaluateMcq ==
    [][last'.op = "evaluate_mcq" =>
        LET q == questions[1]
            user_choice == last'.user_choice
        IN  /\ last'.ret[1] <=>
                    \E a \in Pieces(user_choice), b \in Pieces(q.correct_answer) :
                        /\ IsTrimOf(a, user_choice)
                        /\ IsTrimOf(b, q.correct_answer)
                        /\ SameIgnoringCase(a, b)
            /\ last'.ret[2] = (IF q.explanation = Null THEN <<>> ELSE q.explanation.v)
            /\ UNCHANGED <<questions, disk>>]_vars

\* " Ab" was judged correct against the correct answer "ab", and the
\* explanation was returned
C16_Witness ==
    /\ last.op = "evaluate_mcq"
    /\ last.user_choice = <<" ", "A", "b">>
    /\ questions[1].correct_answer = <<"a", "b">>
    /\ last.ret = <<TRUE, <<"b">>>>

\* C17: evaluate_freeform on an empty or whitespace-only answer returns
\* (false, "The question was not answered") and calls the delegated judgment
\* not at all; on every other answer it calls it exactly once.
C17_BlankNotJudged ==
    last.op = "evaluate_freeform" =>
        IF \A k \in 1..Len(last.user_answer) : last.user_answer[k] \in Whitespace
        THEN /\ last.ret = Value(<<FALSE, "The question was not answered">>)
             /\ last.calls = 0
        ELSE last.calls = 1

\* A whitespace-only answer was evaluated
C17_Witness ==
    /\ last.op = "evaluate_freeform"
    /\ last.user_answer = <<" ", " ">>
    /\ last.calls = 0

\* C18 as claimed: on a non-blank answer evaluate_freeform raises nothing:
\* a result with an error key gives (false, "LLM error: " + message), the
\* message "Unknown" when it has none, and any other result gives is_correct
\* true exactly when its judgment is "correct" in any letter case, with its
\* explanation, the empty string when it has none.
C18_NeverPropagates ==
    (last.op = "evaluate_freeform" /\ last.calls = 1) =>
        /\ last.ret.ok
        /\ last.completion.error # Missing =>
                /\ last.ret.v[1] = FALSE
                /\ \/ /\ last.completion.error.v.message = Missing
                      /\ last.ret.v[2] = "LLM error: Unknown"
                   \/ /\ last.completion.error.v.message # Missing
                      /\ last.ret.v[2] =
                            "LLM error: " \o last.completion.error.v.message.v
        /\ last.completion.error = Missing =>
                /\ last.ret.v[1] <=>
                        /\ last.completion.judgment \notin {Missing, Null}
                        /\ SameIgnoringCase(Strip(last.completion.judgment.v),
                                            <<"c", "o", "r", "r", "e", "c", "t">>)
                /\ last.ret.v[2] =
                        (IF last.completion.explanation \in {Missing, Null} THEN <<>>
                         ELSE last.completion.explanation.v)

-----------------------------------------------------------------------------
(* Practice and test sessions: modes/practice_mode.py, modes/test_mode.py,   *)
(* core/session_helpers.py.  A step runs the mode from one prompt to the    *)
(* next.  session.step names what the last step did: "start", "count",      *)
(* "answer" (the user answered the question displayed) or "exit".           *)
(* session.heard tells of the last answer prompt whether the text typed,    *)
(* trimmed and in lower case, was exit, and how many judgments were asked.  *)

\* The main menu, with the results log written so far
AtMenu(log, step) == [mode |-> "menu", log |-> log, step |-> step]

\* The process ended by an exception
Crashed(log) == [mode |-> "crashed", log |-> log, step |-> "raise"]

\* The positions in the store of the question objects list_active returns
ActivePositions(qs) ==
    LET returned == list_active([i \in 1..Len(qs) |-> [active |-> qs[i].active, at |-> i]])
    IN  [k \in 1..Len(returned) |-> returned[k].at]

\* An active freeform record never shown, beside the stored records
FreshFreeform ==
    [CompleteFreeform EXCEPT !["active"] = JBool(TRUE),
        !["times_shown"] = JInt(0), !["correct_count"] = JInt(0),
        !["incorrect_count"] = JInt(0)]

\* The records of the sessions' files: a legacy multiple-choice record
\* whose second option reads exit, a disabled one and a freeform one
SessionRecords ==
    {[LegacyMCQ EXCEPT
        !["options"] = JList(<<JStr(<<"a", "b">>), JStr(<<"e", "x", "i", "t">>)>>),
        !["correct_answer"] = JStr(<<"a", "b">>)],
     HandEdited, FreshFreeform}

\* What the user types at an answer prompt
SessionAnswers ==
    {<<>>, <<"a">>, <<"B">>, <<"e", "x", "i", "t">>, <<" ", "E", "X", "I", "T">>}

\* What client.complete returns when a judgment is asked for
SessionCompletions ==
    {[error |-> Missing, judgment |-> JStr(<<"C", "o", "r", "r", "e", "c", "t">>),
      explanation |-> Missing],
     [error |-> Missing, judgment |-> JStr(<<"I", "n", "c", "o", "r", "r", "e", "c", "t">>),
      explanation |-> Missing],
     [error |-> JStr(<<"b">>), judgment |-> Missing, explanation |-> Missing]}

\* A judgment is asked for of freeform answers only
CompletionsFor(question) ==
    IF question.variant = "FreeformQuestion" THEN SessionCompletions
    ELSE {CHOOSE completion \in SessionCompletions : TRUE}

\* What an answer step took in: whether the text typed was exit in any
\* letter case, and the judgments asked for; Heard(<<>>, 0) before any answer
Heard(typed, calls) ==
    [typed_exit |-> LowerText(Strip(typed)) = <<"e", "x", "i", "t">>,
     calls |-> calls]

\* What present_and_get_result can return or raise on a question, for all
\* the user can type and all the client can answer
OutcomesOf(question) ==
    LET returned ==
            {[typed |-> typed,
              result |-> present_and_get_result(question, typed, completion)] :
                typed \in SessionAnswers, completion \in CompletionsFor(question)}
    IN  {[raised |-> call.result.raised,
          exit_requested |-> ~call.result.raised /\ call.result.exit_requested,
          is_correct |-> ~call.result.raised /\ call.result.is_correct,
          heard |-> Heard(call.typed, call.result.calls)] : call \in returned}

\* A question as it is displayed: its counters are not shown
AsDisplayed(question) ==
    [question EXCEPT !.times_shown = 0, !.correct_count = 0, !.incorrect_count = 0]

\* OutcomesOf, computed once for each question a session can display
OutcomesTable ==
    [question \in {AsDisplayed(from_dict(record).v) : record \in SessionRecords} |->
        OutcomesOf(question)]

AnswerOutcomes(question) == OutcomesTable[AsDisplayed(question)]

\* What the user types when asked how many questions
CountInputs == {DecStr(n) : n \in 0..MaxAsk} \cup {"exit", ""}

InitSession ==
    /\ disk \in SeqsUpTo(SessionRecords, MaxLoad)
    /\ questions = <<>>
    /\ pc = "unloaded"
    /\ last = [op |-> "none"]
    /\ session = AtMenu(<<>>, "none")

\* run_practice from the store's construction to the first answer prompt,
\* and the loop of lines 24-32 from its top to the answer prompt: the
\* question displayed is drawn by weighted_choice from the active ones
PracticePrompt(qs, log, step, heard) ==
    LET active == ActivePositions(qs)
    IN  IF active = <<>> THEN session' = AtMenu(log, step)
        ELSE \E out \in weighted_choice(list_active(qs)) :
                session' = [mode |-> "practice", log |-> log, step |-> step,
                            current |-> active[out.res.v], heard |-> heard]

\* The user chooses Practice Mode
StartPractice ==
    /\ session.mode = "menu"
    /\ Load
    /\ IF pc' = "ready" THEN PracticePrompt(questions', session.log, "start", Heard(<<>>, 0))
       ELSE session' = Crashed(session.log)

\* The question displayed, by its position in the store
Displayed ==
    IF session.mode = "practice" THEN session.current
    ELSE session.selected[session.index]

\* An answer prompt is open
AtPrompt ==
    session.mode = "practice" \/ (session.mode = "test" /\ session.at = "prompt")

\* The user answers the question displayed in practice: the verdict of the
\* evaluator is recorded (line 36) and the next question is displayed
PracticeAnswer ==
    /\ session.mode = "practice"
    /\ \E result \in AnswerOutcomes(questions[Displayed]) :
        /\ ~result.raised
        /\ ~result.exit_requested
        /\ record_result(session.current, result.is_correct)
        /\ PracticePrompt(questions', session.log, "answer", result.heard)

\* The user types exit at the answer prompt: present_and_get_result returns
\* exit_requested and the mode returns to the main menu
SessionExit ==
    /\ AtPrompt
    /\ \E result \in AnswerOutcomes(questions[Displayed]) :
        /\ result.exit_requested
        /\ session' = [mode |-> "menu", log |-> session.log, step |-> "exit",
                        heard |-> result.heard]
    /\ UNCHANGED <<disk, questions, pc, last>>

\* The judgment of a freeform answer raises (evaluator.py:40-49) and no
\* mode catches it
AnswerRaises ==
    /\ AtPrompt
    /\ \E result \in AnswerOutcomes(questions[Displayed]) :
        /\ result.raised
        /\ session' = [mode |-> "crashed", log |-> session.log, step |-> "raise",
                        heard |-> result.heard]
    /\ UNCHANGED <<disk, questions, pc, last>>

\* The user chooses Test Mode: run_test up to the prompt for the number of
\* questions
StartTest ==
    /\ session.mode = "menu"
    /\ Load
    /\ IF pc' # "ready" THEN session' = Crashed(session.log)
       ELSE IF ActivePositions(questions') = <<>>
       THEN session' = AtMenu(session.log, "start")
       ELSE session' = [mode |-> "test", log |-> session.log, step |-> "start",
                        at |-> "count"]

\* The user types the number of questions: _prompt_number_of_questions and
\* random_unique, up to the first answer prompt
TestCount ==
    /\ session.mode = "test" /\ session.at = "count"
    /\ \E typed \in CountInputs :
        LET number_of_questions == PyInt(JStr(typed))
            active == ActivePositions(questions)
        IN  IF ~number_of_questions.ok \/ number_of_questions.v <= 0
            THEN session' = AtMenu(session.log, "count")
            ELSE \E picked \in random_unique(list_active(questions),
                                             number_of_questions.v) :
                    session' = [mode |-> "test", log |-> session.log,
                                step |-> "count", at |-> "prompt",
                                number_of_questions |-> number_of_questions.v,
                                selected |-> [k \in 1..Len(picked) |-> active[picked[k]]],
                                index |-> 1, correct_total |-> 0,
                                verdicts |-> <<>>, heard |-> Heard(<<>>, 0)]
    /\ UNCHANGED <<disk, questions, pc, last>>

\* append_result_line: the line of a score goes to the end of the log; the
\* date and time the line starts with are left out
append_result_line(log, correct_total, total) ==
    Append(log, [correct |-> correct_total, total |-> total])

\* run_test that counts every answer as correct
TestAnswerCountsAll ==
    /\ session.mode = "test" /\ session.at = "prompt"
    /\ \E result \in AnswerOutcomes(questions[Displayed]) :
        LET is_correct == result.is_correct
            correct_total == session.correct_total + 1
            verdicts == Append(session.verdicts, is_correct)
            heard == result.heard
        IN  /\ ~result.raised
            /\ ~result.exit_requested
            /\ IF session.index < Len(session.selected)
               THEN session' = [session EXCEPT !.step = "answer", !.index = @ + 1,
                                               !.correct_total = correct_total,
                                               !.verdicts = verdicts,
                                               !.heard = heard]
               ELSE session' =
                       [mode |-> "menu",
                        log |-> append_result_line(session.log, correct_total,
                                                   Len(session.selected)),
                        step |-> "answer", verdicts |-> verdicts, heard |-> heard]
    /\ UNCHANGED <<disk, questions, pc, last>>

\* The user answers the question displayed in a test (lines 53-58); after
\* the last one the score is appended to the results log (lines 60-65).
\* session.verdicts holds the verdicts print_correctness has shown.
TestAnswer ==
    /\ session.mode = "test" /\ session.at = "prompt"
    /\ \E result \in AnswerOutcomes(questions[Displayed]) :
        LET is_correct == result.is_correct
            correct_total == session.correct_total + (IF is_correct THEN 1 ELSE 0)
            verdicts == Append(session.verdicts, is_correct)
            heard == result.heard
        IN  /\ ~result.raised
            /\ ~result.exit_requested
            /\ IF session.index < Len(session.selected)
               THEN session' = [session EXCEPT !.step = "answer", !.index = @ + 1,
                                               !.correct_total = correct_total,
                                               !.verdicts = verdicts,
                                               !.heard = heard]
               ELSE session' =
                       [mode |-> "menu",
                        log |-> append_result_line(session.log, correct_total,
                                                   Len(session.selected)),
                        step |-> "answer", verdicts |-> verdicts, heard |-> heard]
    /\ UNCHANGED <<disk, questions, pc, last>>

NextSession ==
    \/ StartPractice
    \/ PracticeAnswer
    \/ SessionExit
    \/ AnswerRaises
    \/ Len(session.log) < MaxLog /\ StartTest
    \/ TestCount
    \/ TestAnswer

SpecSession == InitSession /\ [][NextSession]_vars

\* Test sessions one after the other
NextTest ==
    \/ Len(session.log) < MaxTests /\ StartTest
    \/ TestCount
    \/ TestAnswer
    \/ SessionExit
    \/ AnswerRaises

SpecTest == InitSession /\ [][NextTest]_vars

\* C19 as claimed: in practice and in test, a step in which the user answers
\* the question displayed is one record_result call for that question: its
\* counters go up by one result, the store is written, and nothing else
\* changes before the next question is displayed.
C19_EveryAnswerRecorded ==
    [][session'.step = "answer" =>
        /\ last'.op = "record_result"
        /\ \E is_correct \in BOOLEAN :
                questions' = [questions EXCEPT ![Displayed] = Recorded(@, is_correct)]
        /\ disk' = persist(questions')]_vars

\* C21: list_active returns exactly the questions of the store whose active
\* flag is true, in store order, and the question displayed in practice and
\* every question selected for a test is active in the store.
C21_OnlyActivePresented ==
    /\ LET returned == list_active(questions)
       IN  \E at \in [1..Len(returned) -> 1..Len(questions)] :
                /\ \A j, k \in 1..Len(returned) : j < k => at[j] < at[k]
                /\ \A k \in 1..Len(returned) : returned[k] = questions[at[k]]
                /\ \A i \in 1..Len(questions) :
                        questions[i].active <=> \E k \in 1..Len(returned) : at[k] = i
    /\ session.mode = "practice" => questions[session.current].active
    /\ session.mode = "test" /\ session.at = "prompt" =>
            \A k \in 1..Len(session.selected) : questions[session.selected[k]].active

\* A question is displayed in practice while the store holds an inactive
\* question before it
C21_Witness ==
    /\ session.mode = "practice"
    /\ session.current > 1
    /\ ~questions[1].active

\* The results log grows by one line in this step
LineAppended == Len(session'.log) = Len(session.log) + 1

\* C23: a test session selects min(n, number of active questions) different
\* questions and asks them one after the other; a step appends one line to
\* the results log if and only if it is the answer to the last selected
\* question; the line holds the number of correct verdicts and the number of
\* selected questions; the lines written before stay as they are.
C23_TestLog ==
    [][/\ session.mode = "test" /\ session.at = "count" /\ session'.mode = "test" =>
            /\ Len(session'.selected) =
                    Min(session'.number_of_questions, Len(list_active(questions)))
            /\ \A j, k \in 1..Len(session'.selected) :
                    j # k => session'.selected[j] # session'.selected[k]
            /\ session'.index = 1 /\ session'.verdicts = <<>>
       /\ session.mode = "test" /\ session.at = "prompt" /\ session'.mode = "test" =>
            /\ session'.selected = session.selected
            /\ session'.index = session.index + 1
            /\ Len(session'.verdicts) = Len(session.verdicts) + 1
       /\ session'.log # session.log => LineAppended
       /\ SubSeq(session'.log, 1, Len(session.log)) = session.log
       /\ LineAppended <=>
            /\ session.mode = "test" /\ session.at = "prompt"
            /\ session.index = Len(session.selected)
            /\ session'.step = "answer"
       /\ LineAppended =>
            LET line == session'.log[Len(session'.log)]
                correct == {k \in 1..Len(session'.verdicts) : session'.verdicts[k]}
            IN  /\ Len(session'.verdicts) = Len(session.selected)
                /\ line.total = Len(session.selected)
                /\ line.correct = Cardinality(correct)
                /\ 0 <= line.correct /\ line.correct <= line.total]_vars

\* A second line is in the log, of a test of two questions of which one was
\* answered correctly
C23_Witness ==
    /\ session.mode = "menu"
    /\ Len(session.log) = 2
    /\ session.log[2] = [correct |-> 1, total |-> 2]
    /\ session.step = "answer"

\* C25: when the text typed at an answer prompt of a practice or test
\* session, trimmed and in lower case, is exit, the step ends the session at
\* the main menu without a verdict: no judgment is asked for, the store and
\* the persisted collection stay as they are, and the results log gets no
\* line.
C25_ExitEndsSession ==
    [][AtPrompt /\ session'.heard.typed_exit =>
        /\ session'.mode = "menu"
        /\ session'.step = "exit"
        /\ session'.heard.calls = 0
        /\ session'.log = session.log
        /\ UNCHANGED <<questions, disk, last>>]_vars

\* Exit was typed at an answer prompt of a session on a store that holds an
\* active freeform question, and the session is back at the main menu
C25_Witness ==
    /\ session.mode = "menu"
    /\ session.step = "exit"
    /\ session.heard.typed_exit
    /\ \E i \in 1..Len(questions) :
            questions[i].variant = "FreeformQuestion" /\ questions[i].active

-----------------------------------------------------------------------------
(* The management flow: modes/manage_questions_mode.py.  A step runs the    *)
(* loop of run_manage_questions from one menu prompt to the next.           *)
(* session.invoked tells whether the step called toggle_active, and         *)
(* session.said is the message the step ended with.                         *)

\* What the user types when asked for a question id
IdTyped == {"3", " 3 ", "+3", "-2", "7", "three", ""}

\* What the user types when asked to confirm
ConfirmInputs == {<<>>, <<"y">>, <<" ", "Y">>, <<"n">>, <<"y", "e", "s">>}

\* The manage menu after a step that ended in toggle_question
Toggled(enable, typed_id, asked, typed_confirm, invoked, said) ==
    [mode |-> "manage", step |-> "toggle", enable |-> enable,
     typed_id |-> typed_id, asked |-> asked, typed_confirm |-> typed_confirm,
     invoked |-> invoked, said |-> said]

\* toggle_question that does not look at the flag the question has
ToggleAnyFlag(enable) ==
    \E typed_id \in IdTyped :
        LET question_id == PyInt(JStr(typed_id))
            question == IF question_id.ok THEN find_by_id(questions, question_id.v)
                        ELSE 0
        IN  IF ~question_id.ok
            THEN /\ session' = Toggled(enable, typed_id, FALSE, <<>>, FALSE, "Invalid ID.")
                 /\ UNCHANGED <<disk, questions, pc, last>>
            ELSE IF question = 0
            THEN /\ session' = Toggled(enable, typed_id, FALSE, <<>>, FALSE,
                                       "Question not found.")
                 /\ UNCHANGED <<disk, questions, pc, last>>
            ELSE \E typed_confirm \in ConfirmInputs :
                    LET answer == LowerText(Strip(typed_confirm))
                        confirm == IF answer = <<>> THEN <<"n">> ELSE answer
                    IN  IF confirm = <<"y">>
                        THEN /\ toggle_active(questions[question].id, enable)
                             /\ session' = Toggled(enable, typed_id, TRUE, typed_confirm,
                                                   TRUE, "Updated.")
                        ELSE /\ session' = Toggled(enable, typed_id, TRUE, typed_confirm,
                                                   FALSE, "Cancelled.")
                             /\ UNCHANGED <<disk, questions, pc, last>>

\* toggle_question(quiz_manager, enable)
toggle_question(enable) ==
    \E typed_id \in IdTyped :
        LET question_id == PyInt(JStr(typed_id))
            question == IF question_id.ok THEN find_by_id(questions, question_id.v)
                        ELSE 0
        IN  IF ~question_id.ok
            THEN /\ session' = Toggled(enable, typed_id, FALSE, <<>>, FALSE, "Invalid ID.")
                 /\ UNCHANGED <<disk, questions, pc, last>>
            ELSE IF question = 0
            THEN /\ session' = Toggled(enable, typed_id, FALSE, <<>>, FALSE,
                                       "Question not found.")
                 /\ UNCHANGED <<disk, questions, pc, last>>
            ELSE IF questions[question].active = enable
            THEN /\ session' = Toggled(enable, typed_id, FALSE, <<>>, FALSE,
                                       IF enable THEN "Question is already enabled."
                                       ELSE "Question is already disabled.")
                 /\ UNCHANGED <<disk, questions, pc, last>>
            ELSE \E typed_confirm \in ConfirmInputs :
                    LET answer == LowerText(Strip(typed_confirm))
                        confirm == IF answer = <<>> THEN <<"n">> ELSE answer
                    IN  IF confirm = <<"y">>
                        THEN /\ toggle_active(questions[question].id, enable)
                             /\ session' = Toggled(enable, typed_id, TRUE, typed_confirm,
                                                   TRUE, "Updated.")
                        ELSE /\ session' = Toggled(enable, typed_id, TRUE, typed_confirm,
                                                   FALSE, "Cancelled.")
                             /\ UNCHANGED <<disk, questions, pc, last>>

\* The user chooses Manage Questions Mode: the store is built and the manage
\* menu is shown
StartManage ==
    /\ session.mode = "menu"
    /\ Load
    /\ session' = IF pc' = "ready" THEN [mode |-> "manage", step |-> "start"]
                  ELSE [mode |-> "crashed"]

\* The user answers the manage menu
ManageChoice ==
    /\ session.mode = "manage"
    /\ \E choice \in {"1", "2", "3", "4", "exit", "5"} :
        IF choice \in {"exit", "4"}
        THEN /\ session' = [mode |-> "menu", step |-> "exit"]
             /\ UNCHANGED <<disk, questions, pc, last>>
        ELSE IF choice \in {"2", "3"}
        THEN toggle_question(choice = "2")
        ELSE /\ session' = [mode |-> "manage",
                            step |-> IF choice = "1" THEN "list" ELSE "invalid"]
             /\ UNCHANGED <<disk, questions, pc, last>>

NextManageFlow ==
    \/ StartManage
    \/ ManageChoice

SpecManageFlow == Init /\ [][NextManageFlow]_vars

\* C24: a step of the management flow calls toggle_active only when the id
\* typed reads as an integer, a question has that id, the flag of the first
\* such question differs from the value asked for, and the user confirmed
\* with y; a step that does not call it leaves the store and the persisted
\* collection as they were.
C24_ToggleOnlyConfirmed ==
    [][session.mode = "manage" /\ session'.mode = "manage" =>
        IF session'.step = "toggle" /\ session'.invoked
        THEN LET question_id == PyInt(JStr(session'.typed_id))
             IN  /\ question_id.ok
                 /\ \E i \in 1..Len(questions) :
                        /\ questions[i].id = question_id.v
                        /\ \A j \in 1..(i - 1) : questions[j].id # question_id.v
                        /\ questions[i].active # session'.enable
                        /\ questions' = [questions EXCEPT ![i].active = session'.enable]
                 /\ session'.asked
                 /\ LowerText(Strip(session'.typed_confirm)) = <<"y">>
                 /\ last'.op = "toggle_active"
        ELSE UNCHANGED <<questions, disk>>]_vars

\* A disabled question was enabled after the user confirmed
C24_Witness ==
    /\ session.mode = "manage"
    /\ session.step = "toggle"
    /\ session.invoked
    /\ session.enable
    /\ \E i \in 1..Len(questions) : questions[i].id = -2 /\ questions[i].active

-----------------------------------------------------------------------------
(* correct_percentage on counters of any value *)

\* Questions whose counters are anything from -1 to MaxCount, shown never, as
\* often as answered, or once more
Counted ==
    UNION {{[create_question_object(GeneratedFreeform) EXCEPT
                !.id = 1, !.correct_count = c, !.incorrect_count = i,
                !.times_shown = t] :
                    t \in {0, Max(0, c) + Max(0, i), Max(0, c) + Max(0, i) + 1}} :
            c \in -1..MaxCount, i \in -1..MaxCount}

InitStatistics ==
    /\ disk = <<>>
    /\ questions \in {<<question>> : question \in Counted}
    /\ pc = "ready"
    /\ last = [op |-> "none"]
    /\ session = Idle

\* correct_percentage(question) is called on a question of the store, as the
\* statistics table does for each row
CallCorrectPercentage ==
    /\ \E k \in 1..Len(questions) :
            last' = [op |-> "correct_percentage", question |-> questions[k],
                     ret |-> correct_percentage(questions[k])]
    /\ UNCHANGED <<disk, questions, pc, session>>

SpecStatistics == InitStatistics /\ [][CallCorrectPercentage]_vars

\* C22: correct_percentage is 0 when correct_count + incorrect_count <= 0 and
\* 100 * correct_count / (correct_count + incorrect_count) otherwise, whatever
\* times_shown is; it lies between 0 and 100 when no counter is negative; 5
\* of 5 give 100, 0 of 7 give 0, 3 correct and 1 incorrect give 75.
C22_CorrectPercentage ==
    last.op = "correct_percentage" =>
        LET correct == last.question.correct_count
            incorrect == last.question.incorrect_count
            total == correct + incorrect
        IN  /\ last.ret.den > 0
            /\ total <= 0 => last.ret.num = 0
            /\ total > 0 => last.ret.num * total = 100 * correct * last.ret.den
            /\ correct >= 0 /\ incorrect >= 0 =>
                    0 <= last.ret.num /\ last.ret.num <= 100 * last.ret.den
            /\ correct = 5 /\ incorrect = 0 => last.ret = [num |-> 100, den |-> 1]
            /\ correct = 0 /\ incorrect = 7 => last.ret = [num |-> 0, den |-> 1]
            /\ correct = 3 /\ incorrect = 1 => last.ret = [num |-> 75, den |-> 1]

\* The percentage of a question answered 3 times right and once wrong and
\* shown 5 times was computed
C22_Witness ==
    /\ last.op = "correct_percentage"
    /\ last.question.correct_count = 3
    /\ last.question.incorrect_count = 1
    /\ last.question.times_shown = 5
    /\ last.ret = [num |-> 75, den |-> 1]

-----------------------------------------------------------------------------
(* The review of generated questions: modes/generate_questions_mode.py.     *)
(* A step runs review_and_collect from one accept/edit/reject prompt to the *)
(* next, the prompts of an edit included.  The texts the user can edit are  *)
(* sequences of characters.  session.touched tells whether an edit of the   *)
(* question under review has changed one of its fields, session.modified    *)
(* tells it of each accepted question.  After an exit at the accept/edit/   *)
(* reject prompt session.accepted holds what had been accepted until then.  *)

Exit == <<"E", "x", "i", "t">>

\* Question dicts of a generation response: a multiple-choice question, one
\* whose correct answer is not among its options, and a freeform question
ReviewMCQ ==
    [GeneratedMCQ EXCEPT !["question"] = JStr(<<"g">>),
        !["options"] = JList(<<JStr(<<"x">>), JStr(<<"y">>)>>),
        !["correct_answer"] = JStr(<<"x">>)]

ReviewUnlisted == [ReviewMCQ EXCEPT !["correct_answer"] = JStr(<<"p">>)]

ReviewFreeform ==
    [GeneratedFreeform EXCEPT !["question"] = JStr(<<"g">>),
        !["reference_answer"] = JStr(<<"r">>)]

ReviewDicts == {ReviewMCQ, ReviewUnlisted, ReviewFreeform}

\* What the user types at the accept/edit/reject prompt
ChoiceInputs == {<<>>, <<"A">>, <<"e">>, <<" ", "R">>, <<"b">>, Exit}

\* What the user types at the prompts of an edit of a question: nothing,
\* exit, the text generated, another text
EditInputs(question) ==
    IF question.variant = "MCQQuestion"
    THEN [text : {<<>>, Exit, <<"g">>, <<" ", "h">>},
          options : {<<>>, Exit, <<"p", ";", " ", "q", ";">>},
          correct_answer : {<<>>, Exit, <<"x">>, <<"p">>}]
    ELSE [text : {<<>>, Exit, <<"g">>, <<" ", "h">>},
          reference_answer : {<<>>, Exit, <<"r">>, <<"s">>}]

InitReview ==
    /\ disk \in {<<>>, <<LegacyMCQ>>}
    /\ questions = <<>>
    /\ pc = "unloaded"
    /\ last = [op |-> "none"]
    /\ session = Idle

\* review_and_collect returns None (line 253) and run_generate_questions
\* returns to the main menu (lines 301-303)
ReviewLeft(accepted) == [mode |-> "menu", step |-> "exit", accepted |-> accepted]

\* The for loop of review_and_collect reaches the question at index and shows
\* it; past the last question review_and_collect returns and save_questions
\* builds the store when something was accepted (lines 274-276)
ReviewPrompt(generated, index, accepted, modified) ==
    IF index <= Len(generated)
    THEN /\ session' = [mode |-> "review", generated |-> generated, index |-> index,
                        question_object |-> create_question_object(generated[index]),
                        accepted |-> accepted, touched |-> FALSE,
                        modified |-> modified]
         /\ UNCHANGED <<disk, questions, pc, last>>
    ELSE IF accepted = <<>>
    THEN /\ session' = Idle
         /\ UNCHANGED <<disk, questions, pc, last>>
    ELSE /\ Load
         /\ session' = IF pc' = "ready"
                       THEN [mode |-> "saving", accepted |-> accepted,
                             modified |-> modified]
                       ELSE [mode |-> "crashed"]

\* The user chooses Generate Questions Mode and the model returns questions
StartReview ==
    /\ session.mode = "menu"
    /\ pc = "unloaded"
    /\ \E generated \in SeqsUpTo(ReviewDicts, MaxBatch) \ {<<>>} :
            ReviewPrompt(generated, 1, <<>>, <<>>)

\* Whether two question objects differ in a field the user can edit
Modified(before, after) ==
    \/ before.question # after.question
    \/ before.variant = "MCQQuestion"
        /\ (before.options # after.options
                \/ before.correct_answer # after.correct_answer)
    \/ before.variant = "FreeformQuestion"
        /\ before.reference_answer # after.reference_answer

\* The user answers the accept/edit/reject prompt (lines 247-268); edits
\* gives what the user may type at the prompts of an edit of a question of
\* each variant
ReviewStep(edits) ==
    /\ session.mode = "review"
    /\ \E typed \in ChoiceInputs :
        LET answer == LowerText(Strip(get_user_answer(typed)))
            choice == IF answer = <<>> THEN <<"a">> ELSE answer
            question_object == session.question_object
        IN  IF handle_exit(answer)
            THEN /\ session' = ReviewLeft(session.accepted)
                 /\ UNCHANGED <<disk, questions, pc, last>>
            ELSE IF choice = <<"a">>
            THEN ReviewPrompt(session.generated, session.index + 1,
                              Append(session.accepted, question_object),
                              Append(session.modified, session.touched))
            ELSE IF choice = <<"e">>
            THEN /\ \E typed_in_edit \in edits[question_object.variant] :
                    LET edit == edit_question_in_place(question_object, typed_in_edit)
                    IN  session' =
                            [session EXCEPT
                                !.question_object =
                                    IF edit.ret
                                    THEN [edit.question EXCEPT !.source = "manual"]
                                    ELSE edit.question,
                                !.touched =
                                    @ \/ Modified(question_object, edit.question)]
                 /\ UNCHANGED <<disk, questions, pc, last>>
            ELSE IF choice = <<"r">>
            THEN ReviewPrompt(session.generated, session.index + 1,
                              session.accepted, session.modified)
            ELSE UNCHANGED vars

ReviewChoice ==
    ReviewStep([variant \in {"MCQQuestion", "FreeformQuestion"} |->
                    EditInputs([variant |-> variant])])

\* save_questions that adds the accepted questions last one first
SaveAcceptedReversed ==
    /\ session.mode = "saving"
    /\ add_questions([k \in 1..Len(session.accepted) |->
                        session.accepted[Len(session.accepted) + 1 - k]])
    /\ session' = Idle

\* save_questions adds the accepted questions to the store (line 277)
SaveAccepted ==
    /\ session.mode = "saving"
    /\ add_questions(session.accepted)
    /\ session' = Idle

NextReview ==
    \/ StartReview
    \/ ReviewChoice
    \/ SaveAccepted

SpecReview == InitReview /\ [][NextReview]_vars

\* Reviews of longer lists, the user typing at the prompts of an edit
\* another question text and nothing more, or exit at the second prompt
FewEdits ==
    [variant \in {"MCQQuestion", "FreeformQuestion"} |->
        IF variant = "MCQQuestion"
        THEN [text : {<<" ", "h">>, <<>>}, options : {<<>>, Exit},
              correct_answer : {<<>>}]
        ELSE [text : {<<" ", "h">>, <<>>}, reference_answer : {<<>>, Exit}]]

NextCollect ==
    \/ StartReview
    \/ ReviewStep(FewEdits)
    \/ SaveAccepted

SpecCollect == InitReview /\ [][NextCollect]_vars

\* C20 as claimed: when the accepted questions of a review are stored, each
\* one is stored as it was accepted, with source "manual" if an edit of the
\* review changed its text, options, correct answer or reference answer, and
\* with source "LLM" if none did.
C20_SourceTracksEdits ==
    [][session.mode = "saving" /\ session'.mode = "menu" =>
        \A k \in 1..Len(session.accepted) :
            LET stored == disk'[Len(questions) + k]
            IN  /\ ~Modified(session.accepted[k], from_dict(stored).v)
                /\ stored["source"] =
                        JStr(IF session.modified[k] THEN "manual" ELSE "LLM")]_vars

\* C27: an exit at the accept/edit/reject prompt of a review leaves the
\* persisted collection as it was and builds no store, whatever had been
\* accepted before; the persisted collection changes in no step of a review
\* but the one that follows the end of the generated list with at least one
\* question accepted, and that step keeps the questions the collection held
\* and adds after them the accepted questions, each as it was accepted but
\* for its id, in the order of acceptance.
C27_ReviewPersists ==
    [][/\ (session.mode = "review" /\ session' = ReviewLeft(session.accepted)) =>
            UNCHANGED <<disk, questions, pc, last>>
       /\ session'.mode = "saving" =>
            /\ session.mode = "review"
            /\ session.index = Len(session.generated)
            /\ session'.accepted # <<>>
       /\ disk' # disk =>
            /\ session.mode = "saving"
            /\ Len(disk') = Len(disk) + Len(session.accepted)
            /\ \A i \in 1..Len(disk) : from_dict(disk'[i]) = from_dict(disk[i])
            /\ \A k \in 1..Len(session.accepted) :
                    LET added == from_dict(disk'[Len(disk) + k])
                    IN  /\ added.ok
                        /\ [added.v EXCEPT !.id = 0] = session.accepted[k]]_vars

\* Exit was typed at the accept/edit/reject prompt of the second question of
\* a review whose first question had been accepted, over a collection that
\* holds a question
C27_Witness ==
    /\ DOMAIN session = DOMAIN ReviewLeft(<<>>)
    /\ session.step = "exit"
    /\ Len(session.accepted) = 1
    /\ disk = <<LegacyMCQ>>
    /\ questions = <<>>
    /\ pc = "unloaded"

-----------------------------------------------------------------------------
(* get_next_id on records of any shape *)

IdInputs ==
    {Missing, Null, JInt(-1), JInt(0), JInt(1), JInt(2), JInt(3), JInt(10),
     JStr("3"), JStr("5"), JStr("not a number")}

IdRecords == {[EmptyDict EXCEPT !["id"] = v] : v \in IdInputs}

InitNextId ==
    /\ disk \in SeqsUpTo(IdRecords, MaxIdRecords)
    /\ questions = <<>>
    /\ pc = "unloaded"
    /\ last = [op |-> "none"]
    /\ session = Idle

\* get_next_id(records) is called and returns
CallGetNextId ==
    /\ last' = [op |-> "get_next_id", ret |-> get_next_id(disk)]
    /\ UNCHANGED <<disk, questions, pc, session>>

NextNextId == CallGetNextId

SpecNextId == InitNextId /\ [][NextNextId]_vars

\* The ids of the records that int() reads as an integer; a record without
\* an id counts as 0
ParsedIds(records) ==
    {PyInt(Get(records[i], "id", JInt(0))).v :
        i \in {j \in 1..Len(records) : PyInt(Get(records[j], "id", JInt(0))).ok}}

\* C5: get_next_id(records) returns 1 + the largest id that parses as an
\* integer when that id is positive, and 1 otherwise; records whose id is
\* missing, null or no numeral are skipped and the call always returns.
C5_NextId ==
    last.op = "get_next_id" =>
        LET positive == {n \in ParsedIds(disk) : n > 0}
        IN  IF positive = {} THEN last.ret = 1
            ELSE /\ last.ret - 1 \in positive
                 /\ \A n \in positive : n <= last.ret - 1

\* get_next_id returned 6 for records holding "5", null and a non-numeral
C5_Witness ==
    /\ last = [op |-> "get_next_id", ret |-> 6]
    /\ disk = <<[EmptyDict EXCEPT !["id"] = JStr("5")],
                [EmptyDict EXCEPT !["id"] = Null],
                [EmptyDict EXCEPT !["id"] = JStr("not a number")]>>

-----------------------------------------------------------------------------
(* The store built again from what an earlier store persisted *)

\* C26: a store constructed while an earlier store instance is in memory,
\* after any sequence of add_questions, toggle_active and record_result of
\* that instance, is constructed without an exception and holds the same
\* questions as that instance: as many, in the same order, each with the
\* same variant, id, active flag and counters.
C26_LoadAfterPersist ==
    [][(pc = "ready" /\ last'.op = "__init__") =>
        /\ pc' = "ready"
        /\ Len(questions') = Len(questions)
        /\ \A i \in 1..Len(questions) :
            /\ questions'[i].variant = questions[i].variant
            /\ questions'[i].id = questions[i].id
            /\ questions'[i].active = questions[i].active
            /\ questions'[i].times_shown = questions[i].times_shown
            /\ questions'[i].correct_count = questions[i].correct_count
            /\ questions'[i].incorrect_count = questions[i].incorrect_count]_vars

\* A store built from a file in which a question that was generated and
\* added is disabled and has one correct result recorded, after a loaded one
C26_Witness ==
    /\ pc = "ready"
    /\ last.op = "__init__"
    /\ Len(questions) >= 2
    /\ \E i \in 2..Len(questions) :
        /\ questions[i].question = "g1"
        /\ questions[i].id > 0
        /\ ~questions[i].active
        /\ questions[i].correct_count = 1
        /\ questions[i].times_shown = 1

-----------------------------------------------------------------------------
(* process_mcq on multiple-choice questions of up to MaxOptions options,    *)
(* some of which read like a letter of the prompt or like exit              *)

OptionTexts == {<<"b">>, <<"A", "b">>, <<"e", "x", "i", "t">>}

\* The label display_question prints before the option at position i
Label(i) == <<"A", "B", "C", "D">>[i]

\* Multiple-choice questions whose correct answer is one of their options
McqQuestions ==
    UNION {{[create_question_object(GeneratedMCQ) EXCEPT
                !.id = 1,
                !.options = [k \in 1..Len(texts) |-> JStr(texts[k])],
                !.correct_answer = texts[i]] : i \in 1..Len(texts)} :
            texts \in SeqsUpTo(OptionTexts, MaxOptions) \ {<<>>}}

\* What the user types at the answer prompt: a letter in either case or the
\* text of an option
McqTyped ==
    {<<Label(i)>> : i \in 1..4} \cup {LowerText(<<Label(i)>>) : i \in 1..4}
        \cup OptionTexts

InitProcessMcq ==
    /\ disk = <<>>
    /\ questions \in {<<q>> : q \in McqQuestions}
    /\ pc = "ready"
    /\ last = [op |-> "none"]
    /\ session = Idle

\* process_mcq(question) is called once, the user types, and it returns
CallProcessMcq ==
    \E typed \in McqTyped :
        /\ pc = "ready"
        /\ last' = [op |-> "process_mcq", typed |-> typed,
                    ret |-> process_mcq(questions[1], typed)]
        /\ pc' = "returned"
        /\ UNCHANGED <<disk, questions, session>>

SpecProcessMcq == InitProcessMcq /\ [][CallProcessMcq]_vars

\* C28 as claimed: when the correct answer of a multiple-choice question is
\* one of its first four options, process_mcq judges correct the answer that
\* is the letter of that option, in either case, and the answer that is the
\* full text of that option.
C28_LetterOrText ==
    last.op = "process_mcq" =>
        LET question == questions[1]
            shown == 1..Min(4, Len(question.options))
        IN  \A i \in shown :
                (/\ question.options[i].v = question.correct_answer
                 /\ \/ last.typed \in {<<Label(i)>>, LowerText(<<Label(i)>>)}
                    \/ last.typed = question.options[i].v)
                    => (~last.ret.exited /\ last.ret.res.v[1])

====
